---- MODULE Spec2Model ----
(***************************************************************************)
(* Sillyverse: a 16-bit word-addressed CPU emulator (crate emulator), its  *)
(* assembler (crate compiler) and the arena that clocks machines (crate    *)
(* employees).  The hardware is modelled field by field; every handler of  *)
(* operations.rs is an operator from a hardware record and an instruction  *)
(* word to the set of outcomes the handler can produce.                    *)
(***************************************************************************)
EXTENDS Integers, Sequences, FiniteSets, TLC

\* ------------------------------------------------------------------------
\* Words (u16) and bit operations
\* ------------------------------------------------------------------------

\* u16::MAX, the largest value of a memory cell, a register and the PC.
MaxWord == 65535

\* 2^16: u16 arithmetic wraps modulo this value in a build without overflow checks.
WordModulus == 65536

Words == 0..MaxWord

Min(a, b) == IF a < b THEN a ELSE b

Max(a, b) == IF a > b THEN a ELSE b

RECURSIVE BitAnd(_, _)
\* x & y on non-negative integers.
BitAnd(x, y) ==
    IF x = 0 \/ y = 0 THEN 0
    ELSE (IF x % 2 = 1 /\ y % 2 = 1 THEN 1 ELSE 0) + 2 * BitAnd(x \div 2, y \div 2)

RECURSIVE BitOr(_, _)
\* x | y on non-negative integers.
BitOr(x, y) ==
    IF x = 0 THEN y
    ELSE IF y = 0 THEN x
    ELSE (IF x % 2 = 1 \/ y % 2 = 1 THEN 1 ELSE 0) + 2 * BitOr(x \div 2, y \div 2)

RECURSIVE Pow2(_)
Pow2(n) == IF n = 0 THEN 1 ELSE 2 * Pow2(n - 1)

\* (x << n) on a u16: the bits shifted out are lost.
Shl16(x, n) == (x * Pow2(n)) % WordModulus

\* x >> n
Shr(x, n) == x \div Pow2(n)

\* u16::saturating_add
saturating_add(a, b) == Min(a + b, MaxWord)

\* u16::saturating_sub
saturating_sub(a, b) == Max(a - b, 0)

\* u16::overflowing_add: the wrapped sum and whether it overflowed.
overflowing_add(a, b) == [value |-> (a + b) % WordModulus, overflowed |-> a + b > MaxWord]

\* ------------------------------------------------------------------------
\* Memory: a Vec<u16>, kept as its length and its non-zero cells (a cell
\* outside DOMAIN cells holds 0, as every cell does after construction).
\* ------------------------------------------------------------------------

Restrict(f, S) == [x \in S |-> f[x]]

NewMemory(size) == [len |-> size, cells |-> <<>>]

MemRead(m, a) == IF a \in DOMAIN m.cells THEN m.cells[a] ELSE 0

MemWrite(m, a, v) ==
    LET rest == Restrict(m.cells, DOMAIN m.cells \ {a})
    IN [m EXCEPT !.cells = IF v = 0 THEN rest ELSE (a :> v) @@ rest]

RECURSIVE MemWriteAll(_, _, _, _)
\* memory[start + i] = data[i] for i in from-1 .. Len(data)-1, in order.
MemWriteAll(m, data, start, from) ==
    IF from > Len(data) THEN m
    ELSE MemWriteAll(MemWrite(m, start + from - 1, data[from]), data, start, from + 1)

\* ------------------------------------------------------------------------
\* operation_code.rs: the key of the handler table
\* ------------------------------------------------------------------------

get_operation_type(instruction) ==
    IF BitAnd(instruction, 65472) = 0 THEN "NoOperand"
    ELSE IF BitAnd(instruction, 61440) = 0 THEN "SingleOperand"
    ELSE "DoubleOperand"

\* get_operation_mask keeping the operand bits of a double-operand word.
get_operation_mask_whole_word(operation_type) ==
    CASE operation_type = "NoOperand" -> 63
      [] operation_type = "SingleOperand" -> 4032
      [] operation_type = "DoubleOperand" -> MaxWord

get_operation_mask(operation_type) ==
    CASE operation_type = "NoOperand" -> 63
      [] operation_type = "SingleOperand" -> 4032
      [] operation_type = "DoubleOperand" -> 61440

\* PartialEq for OperationCode
OperationCodeEq(self, other) ==
    LET my_type == get_operation_type(self)
        other_type == get_operation_type(other)
        mask == get_operation_mask(my_type)
    IN /\ my_type = other_type
       /\ BitAnd(self, mask) = BitAnd(other, mask)

\* Hash for OperationCode: the value that is hashed.
OperationCodeHash(self) ==
    BitAnd(self, get_operation_mask(get_operation_type(self)))

\* Operations::new: the table, in insertion order.
OperationsTable ==
    << [code |-> 0,     function |-> "nop"],
       [code |-> 1,     function |-> "syscall"],
       [code |-> 2,     function |-> "return_subroutine"],
       [code |-> 64,    function |-> "jump"],
       [code |-> 128,   function |-> "skip_if_zero"],
       [code |-> 192,   function |-> "subroutine"],
       [code |-> 4096,  function |-> "copy"],
       [code |-> 8192,  function |-> "add"],
       [code |-> 12288, function |-> "subtract"],
       [code |-> 16384, function |-> "skip_if_equal"],
       [code |-> 20480, function |-> "skip_if_greater"],
       [code |-> 24576, function |-> "set"] >>

\* HashMap::get: an entry with the same hash and an equal key; "unknown" is
\* the Err of get_function.  A later insert of an equal key replaces the
\* earlier one, so the last matching entry is the one stored.
get_function(instruction) ==
    LET hits == { i \in DOMAIN OperationsTable :
                    /\ OperationCodeHash(OperationsTable[i].code) = OperationCodeHash(instruction)
                    /\ OperationCodeEq(OperationsTable[i].code, instruction) }
    IN IF hits = {} THEN "unknown"
       ELSE OperationsTable[CHOOSE i \in hits : \A j \in hits : j <= i].function

\* ------------------------------------------------------------------------
\* hardware/mod.rs: the Hardware struct.  A hardware value is a record
\*   memory, program_counter, registers (0..7), call_stack (return PCs, the
\*   last element is the top), overflow_flag, underflow_flag, error_flag,
\*   sys_callback ("None": never registered, "Live": the Weak upgrades,
\*   "Dropped": the owner is gone, "Held": the Weak upgrades and the caller
\*   of clock holds the lock of the owner's Mutex).
\* stack_pointer is never read or written after construction and is left out.
\* ------------------------------------------------------------------------

RegisterIndexes == 0..7

\* Hardware::new
NewHardware(memory_size) ==
    [ memory          |-> NewMemory(memory_size),
      program_counter |-> 0,
      registers       |-> [i \in RegisterIndexes |-> 0],
      call_stack      |-> <<>>,
      overflow_flag   |-> FALSE,
      underflow_flag  |-> FALSE,
      error_flag      |-> FALSE,
      sys_callback    |-> "None" ]

\* The depth the call stack may reach (the value get_call_stack_size returns).
CallStackSize == 2

\* Hardware::get_call_stack_size
get_call_stack_size == CallStackSize

\* An outcome of a handler or an API call: the hardware it leaves and
\* "ok" (Ok), "err" (Err) or "panic" (an arithmetic overflow caught by a
\* build with overflow checks: the thread unwinds out of the call).
OkOutcome(hw) == [hw |-> hw, result |-> "ok"]

ErrOutcome(hw) == [hw |-> hw, result |-> "err"]

PanicOutcome(hw) == [hw |-> hw, result |-> "panic"]

\* `hardware.program_counter += n` followed by `return Ok(())`.  On u16
\* overflow a build with overflow checks panics and one without wraps.
advance_program_counter(hw, n) ==
    IF hw.program_counter + n > MaxWord
    THEN { PanicOutcome(hw),
           OkOutcome([hw EXCEPT !.program_counter = (hw.program_counter + n) % WordModulus]) }
    ELSE { OkOutcome([hw EXCEPT !.program_counter = hw.program_counter + n]) }

\* ------------------------------------------------------------------------
\* hardware/operations.rs: operand resolution
\* ------------------------------------------------------------------------

AddressErr == [ok |-> FALSE, kind |-> "Err", value |-> 0]

AddressOk(kind, value) == [ok |-> TRUE, kind |-> kind, value |-> value]

\* get_true_address without the two tests against the memory length.
get_true_address_unchecked(hw, address) ==
    LET address_type == BitAnd(address, 48)
        register_number == BitAnd(address, 15)
    IN IF register_number > 7 THEN AddressErr
       ELSE IF address_type = 0 THEN AddressOk("Register", register_number)
       ELSE IF address_type = 16 THEN AddressOk("Memory", hw.registers[register_number])
       ELSE IF address_type = 32 THEN
            AddressOk("RegisterPlusPC",
                      saturating_add(hw.registers[register_number], hw.program_counter))
       ELSE LET sum == overflowing_add(hw.registers[register_number], hw.program_counter)
            IN IF sum.overflowed THEN AddressErr
               ELSE AddressOk("Memory", sum.value)

\* get_true_address using the wrapped sum of mode 11 whatever the overflow.
get_true_address_wrapping(hw, address) ==
    LET address_type == BitAnd(address, 48)
        register_number == BitAnd(address, 15)
    IN IF register_number > 7 THEN AddressErr
       ELSE IF address_type = 0 THEN AddressOk("Register", register_number)
       ELSE IF address_type = 16 THEN
            LET memory_address == hw.registers[register_number]
            IN IF memory_address >= hw.memory.len THEN AddressErr
               ELSE AddressOk("Memory", memory_address)
       ELSE IF address_type = 32 THEN
            AddressOk("RegisterPlusPC",
                      saturating_add(hw.registers[register_number], hw.program_counter))
       ELSE LET sum == overflowing_add(hw.registers[register_number], hw.program_counter)
            IN IF sum.value >= hw.memory.len THEN AddressErr
               ELSE AddressOk("Memory", sum.value)

\* get_true_address keeping the low three bits of the register index
\* instead of refusing an index above 7.
get_true_address_masking(hw, address) ==
    LET address_type == BitAnd(address, 48)
        register_number == BitAnd(address, 7)
    IN IF address_type = 0 THEN AddressOk("Register", register_number)
       ELSE IF address_type = 16 THEN
            LET memory_address == hw.registers[register_number]
            IN IF memory_address >= hw.memory.len THEN AddressErr
               ELSE AddressOk("Memory", memory_address)
       ELSE IF address_type = 32 THEN
            AddressOk("RegisterPlusPC",
                      saturating_add(hw.registers[register_number], hw.program_counter))
       ELSE LET sum == overflowing_add(hw.registers[register_number], hw.program_counter)
            IN IF sum.overflowed THEN AddressErr
               ELSE IF sum.value >= hw.memory.len THEN AddressErr
               ELSE AddressOk("Memory", sum.value)

get_true_address(hw, address) ==
    LET address_type == BitAnd(address, 48)
        register_number == BitAnd(address, 15)
    IN IF register_number > 7 THEN AddressErr
       ELSE IF address_type = 0 THEN AddressOk("Register", register_number)
       ELSE IF address_type = 16 THEN
            LET memory_address == hw.registers[register_number]
            IN IF memory_address >= hw.memory.len THEN AddressErr
               ELSE AddressOk("Memory", memory_address)
       ELSE IF address_type = 32 THEN
            AddressOk("RegisterPlusPC",
                      saturating_add(hw.registers[register_number], hw.program_counter))
       ELSE LET sum == overflowing_add(hw.registers[register_number], hw.program_counter)
            IN IF sum.overflowed THEN AddressErr
               ELSE IF sum.value >= hw.memory.len THEN AddressErr
               ELSE AddressOk("Memory", sum.value)

extract_one_operand_address(instruction) == BitAnd(instruction, 63)

\* extract_two_operand_address taking the first address from the low bits.
extract_two_operand_address_swapped(instruction) ==
    [first |-> BitAnd(instruction, 63), second |-> Shr(BitAnd(instruction, 4032), 6)]

extract_two_operand_address(instruction) ==
    [first |-> Shr(BitAnd(instruction, 4032), 6), second |-> BitAnd(instruction, 63)]

ValueErr == [ok |-> FALSE, value |-> 0]

ValueOk(v) == [ok |-> TRUE, value |-> v]

\* The value of a resolved address with RegisterPlusPC accepted by every caller.
AddressValueAcceptingRP(hw, true_address, supports_register_pc) ==
    IF ~true_address.ok THEN ValueErr
    ELSE IF true_address.kind = "Register" THEN ValueOk(hw.registers[true_address.value])
    ELSE IF true_address.kind = "Memory" THEN ValueOk(MemRead(hw.memory, true_address.value))
    ELSE ValueOk(true_address.value)

\* The `match true_address` of extract_one_operand_value and
\* extract_two_operand_value: the value a resolved address stands for.
AddressValue(hw, true_address, supports_register_pc) ==
    IF ~true_address.ok THEN ValueErr
    ELSE IF true_address.kind = "Register" THEN ValueOk(hw.registers[true_address.value])
    ELSE IF true_address.kind = "Memory" THEN ValueOk(MemRead(hw.memory, true_address.value))
    ELSE IF ~supports_register_pc THEN ValueErr
    ELSE ValueOk(true_address.value)

extract_one_operand_value(hw, instruction, supports_register_pc) ==
    AddressValue(hw, get_true_address(hw, extract_one_operand_address(instruction)),
                 supports_register_pc)

extract_two_operand_value(hw, instruction, supports_register_pc) ==
    LET addresses == extract_two_operand_address(instruction)
        first_value == AddressValue(hw, get_true_address(hw, addresses.first),
                                    supports_register_pc)
        second_value == AddressValue(hw, get_true_address(hw, addresses.second),
                                     supports_register_pc)
    IN IF ~first_value.ok THEN [ok |-> FALSE, first |-> 0, second |-> 0]
       ELSE IF ~second_value.ok THEN [ok |-> FALSE, first |-> 0, second |-> 0]
       ELSE [ok |-> TRUE, first |-> first_value.value, second |-> second_value.value]

\* Storing a value at a resolved Register or Memory address.
StoreAt(hw, true_address, value) ==
    IF true_address.kind = "Register"
    THEN [hw EXCEPT !.registers[true_address.value] = value]
    ELSE [hw EXCEPT !.memory = MemWrite(hw.memory, true_address.value, value)]

\* ------------------------------------------------------------------------
\* cpu_state.rs and sys_callback.rs: the projection handed to the host
\* ------------------------------------------------------------------------

\* CPUState::new
NewCPUState(registers) == [registers |-> registers, error_flag |-> FALSE]

\* Registers and values a host callback writes in this model.
CallbackRegisters == {0, 3}

CallbackValues == {0, 12}

\* SysCallback::syscall: what a host may leave in the projection.  The host
\* sees only the projection; it may call set_register and set_error_flag.
CallbackResults(cpu_state) ==
    { [registers  |-> [cpu_state.registers EXCEPT ![r] = v],
       error_flag |-> e] :
        r \in CallbackRegisters, v \in CallbackValues, e \in BOOLEAN }

\* call_syscall calling the callback without testing that the upgrade of
\* the Weak succeeded.
call_syscall_without_upgrade_test(hw, cpu_state) ==
    IF hw.sys_callback = "None"
    THEN { [ok |-> FALSE, returns |-> TRUE, cpu_state |-> cpu_state] }
    ELSE { [ok |-> TRUE, returns |-> TRUE, cpu_state |-> c] : c \in CallbackResults(cpu_state) }

\* Hardware::call_syscall: the projections the call can leave, with its result.
\* sys_callback is "Held" while the caller of clock holds the lock of the
\* callback's Mutex: the lock() of call_syscall then does not return.
call_syscall(hw, cpu_state) ==
    IF hw.sys_callback = "None"
    THEN { [ok |-> FALSE, returns |-> TRUE, cpu_state |-> cpu_state] }
    ELSE IF hw.sys_callback = "Dropped"
    THEN { [ok |-> FALSE, returns |-> TRUE, cpu_state |-> cpu_state] }
    ELSE IF hw.sys_callback = "Held"
    THEN { [ok |-> FALSE, returns |-> FALSE, cpu_state |-> cpu_state] }
    ELSE { [ok |-> TRUE, returns |-> TRUE, cpu_state |-> c] : c \in CallbackResults(cpu_state) }

\* ------------------------------------------------------------------------
\* hardware/operations.rs: the handlers.  Each gives the set of outcomes of
\* running the handler on hardware hw with the fetched word.
\* ------------------------------------------------------------------------

\* nop stepping over the word behind it.
nop_stepping_over(hw, instruction) == advance_program_counter(hw, 2)

nop(hw, instruction) == advance_program_counter(hw, 1)

\* The part of syscall after the call, without the copy of the projection's
\* registers into the hardware.
SyscallAfterCallDiscarding(hw, cpu_state) ==
    { IF o.result = "ok" /\ cpu_state.error_flag
      THEN ErrOutcome([o.hw EXCEPT !.error_flag = TRUE])
      ELSE o : o \in advance_program_counter(hw, 1) }

\* The part of syscall after a successful call_syscall.
SyscallAfterCall(hw, cpu_state) ==
    LET copied == [hw EXCEPT !.registers = [i \in RegisterIndexes |-> cpu_state.registers[i]]]
    IN { IF o.result = "ok" /\ cpu_state.error_flag
         THEN ErrOutcome([o.hw EXCEPT !.error_flag = TRUE])
         ELSE o : o \in advance_program_counter(copied, 1) }

\* A lock() of a Mutex its thread already holds panics or blocks for ever.
syscall(hw, instruction) ==
    UNION { IF ~c.returns THEN { PanicOutcome(hw), [hw |-> hw, result |-> "deadlock"] }
            ELSE IF c.ok THEN SyscallAfterCall(hw, c.cpu_state)
            ELSE { ErrOutcome(hw) } :
            c \in call_syscall(hw, NewCPUState(hw.registers)) }

\* return_subroutine popping the oldest return address instead of the newest.
return_subroutine_fifo(hw, instruction) ==
    IF Len(hw.call_stack) > 0
    THEN { OkOutcome([hw EXCEPT !.program_counter = hw.call_stack[1],
                                !.call_stack = Tail(hw.call_stack)]) }
    ELSE { ErrOutcome([hw EXCEPT !.underflow_flag = TRUE]) }

\* return_subroutine that fails on an empty stack without raising the flag.
return_subroutine_silent(hw, instruction) ==
    IF Len(hw.call_stack) > 0
    THEN { OkOutcome([hw EXCEPT !.program_counter = hw.call_stack[Len(hw.call_stack)],
                                !.call_stack = SubSeq(hw.call_stack, 1, Len(hw.call_stack) - 1)]) }
    ELSE { ErrOutcome(hw) }

return_subroutine(hw, instruction) ==
    IF Len(hw.call_stack) > 0
    THEN { OkOutcome([hw EXCEPT !.program_counter = hw.call_stack[Len(hw.call_stack)],
                                !.call_stack = SubSeq(hw.call_stack, 1, Len(hw.call_stack) - 1)]) }
    ELSE { ErrOutcome([hw EXCEPT !.underflow_flag = TRUE]) }

\* jump refusing a target outside the memory.
jump_validating(hw, instruction) ==
    LET value == extract_one_operand_value(hw, instruction, TRUE)
    IN IF value.ok /\ value.value < hw.memory.len
       THEN { OkOutcome([hw EXCEPT !.program_counter = value.value]) }
       ELSE { ErrOutcome(hw) }

jump(hw, instruction) ==
    LET value == extract_one_operand_value(hw, instruction, TRUE)
    IN IF value.ok THEN { OkOutcome([hw EXCEPT !.program_counter = value.value]) }
       ELSE { ErrOutcome(hw) }

\* subroutine after the stack-size test: push, then resolve the target.
SubroutinePushAndJump(hw, instruction, return_address) ==
    LET pushed == [hw EXCEPT !.call_stack = Append(hw.call_stack, return_address)]
        value == extract_one_operand_value(pushed, instruction, TRUE)
    IN IF value.ok THEN OkOutcome([pushed EXCEPT !.program_counter = value.value])
       ELSE ErrOutcome(pushed)

\* subroutine without the test of the stack size.
subroutine_unchecked(hw, instruction) ==
    { SubroutinePushAndJump(hw, instruction, (hw.program_counter + 1) % WordModulus) }

subroutine(hw, instruction) ==
    IF Len(hw.call_stack) = get_call_stack_size
    THEN { ErrOutcome([hw EXCEPT !.overflow_flag = TRUE]) }
    ELSE IF hw.program_counter + 1 > MaxWord
    THEN { PanicOutcome(hw),
           SubroutinePushAndJump(hw, instruction, (hw.program_counter + 1) % WordModulus) }
    ELSE { SubroutinePushAndJump(hw, instruction, hw.program_counter + 1) }

skip_if_zero(hw, instruction) ==
    LET address_value == extract_one_operand_value(hw, instruction, FALSE)
    IN IF ~address_value.ok THEN { ErrOutcome(hw) }
       ELSE IF address_value.value = 0 THEN advance_program_counter(hw, 2)
       ELSE advance_program_counter(hw, 1)

\* copy storing the value of the destination at the source.
copy_reversed(hw, instruction) ==
    LET addresses == extract_two_operand_address(instruction)
        source_true_address == get_true_address(hw, addresses.second)
        source_value == AddressValue(hw, source_true_address, FALSE)
        destination_true_address == get_true_address(hw, addresses.first)
    IN IF ~source_value.ok THEN { ErrOutcome(hw) }
       ELSE IF ~destination_true_address.ok THEN { ErrOutcome(hw) }
       ELSE IF destination_true_address.kind = "RegisterPlusPC" THEN { ErrOutcome(hw) }
       ELSE advance_program_counter(
                StoreAt(hw, destination_true_address, source_value.value), 1)

copy(hw, instruction) ==
    LET addresses == extract_two_operand_address(instruction)
        source_true_address == get_true_address(hw, addresses.first)
        source_value == AddressValue(hw, source_true_address, FALSE)
        destination_true_address == get_true_address(hw, addresses.second)
    IN IF ~source_value.ok THEN { ErrOutcome(hw) }
       ELSE IF ~destination_true_address.ok THEN { ErrOutcome(hw) }
       ELSE IF destination_true_address.kind = "RegisterPlusPC" THEN { ErrOutcome(hw) }
       ELSE advance_program_counter(
                StoreAt(hw, destination_true_address, source_value.value), 1)

\* add with a wrapping sum instead of a saturating one.
add_wrapping(hw, instruction) ==
    LET addresses == extract_two_operand_address(instruction)
        first_value == AddressValue(hw, get_true_address(hw, addresses.first), FALSE)
        true_second_address == get_true_address(hw, addresses.second)
        second_value == AddressValue(hw, true_second_address, FALSE)
    IN IF ~first_value.ok THEN { ErrOutcome(hw) }
       ELSE IF ~second_value.ok THEN { ErrOutcome(hw) }
       ELSE advance_program_counter(
                StoreAt(hw, true_second_address,
                        (first_value.value + second_value.value) % WordModulus), 1)

add(hw, instruction) ==
    LET addresses == extract_two_operand_address(instruction)
        first_value == AddressValue(hw, get_true_address(hw, addresses.first), FALSE)
        true_second_address == get_true_address(hw, addresses.second)
        second_value == AddressValue(hw, true_second_address, FALSE)
    IN IF ~first_value.ok THEN { ErrOutcome(hw) }
       ELSE IF ~second_value.ok THEN { ErrOutcome(hw) }
       ELSE advance_program_counter(
                StoreAt(hw, true_second_address,
                        saturating_add(first_value.value, second_value.value)), 1)

\* subtract computing second - first instead of first - second.
subtract_swapped(hw, instruction) ==
    LET addresses == extract_two_operand_address(instruction)
        first_value == AddressValue(hw, get_true_address(hw, addresses.first), FALSE)
        true_second_address == get_true_address(hw, addresses.second)
        second_value == AddressValue(hw, true_second_address, FALSE)
    IN IF ~first_value.ok THEN { ErrOutcome(hw) }
       ELSE IF ~second_value.ok THEN { ErrOutcome(hw) }
       ELSE advance_program_counter(
                StoreAt(hw, true_second_address,
                        saturating_sub(second_value.value, first_value.value)), 1)

subtract(hw, instruction) ==
    LET addresses == extract_two_operand_address(instruction)
        first_value == AddressValue(hw, get_true_address(hw, addresses.first), FALSE)
        true_second_address == get_true_address(hw, addresses.second)
        second_value == AddressValue(hw, true_second_address, FALSE)
    IN IF ~first_value.ok THEN { ErrOutcome(hw) }
       ELSE IF ~second_value.ok THEN { ErrOutcome(hw) }
       ELSE advance_program_counter(
                StoreAt(hw, true_second_address,
                        saturating_sub(first_value.value, second_value.value)), 1)

skip_if_equal(hw, instruction) ==
    LET values == extract_two_operand_value(hw, instruction, FALSE)
    IN IF ~values.ok THEN { ErrOutcome(hw) }
       ELSE IF values.first = values.second THEN advance_program_counter(hw, 2)
       ELSE advance_program_counter(hw, 1)

skip_if_greater(hw, instruction) ==
    LET values == extract_two_operand_value(hw, instruction, FALSE)
    IN IF ~values.ok THEN { ErrOutcome(hw) }
       ELSE IF values.first > values.second THEN advance_program_counter(hw, 2)
       ELSE advance_program_counter(hw, 1)

\* set taking the register index from bits 10..8 of the word.
set_with_misplaced_register(hw, instruction) ==
    LET register_number == Shr(BitAnd(1792, instruction), 8)
        constant == BitAnd(511, instruction)
    IN advance_program_counter([hw EXCEPT !.registers[register_number] = constant], 1)

set(hw, instruction) ==
    LET register_number == Shr(BitAnd(3584, instruction), 9)
        constant == BitAnd(511, instruction)
    IN advance_program_counter([hw EXCEPT !.registers[register_number] = constant], 1)

\* Calling the fn pointer get_function returned.
Execute(function, hw, instruction) ==
    CASE function = "nop" -> nop(hw, instruction)
      [] function = "syscall" -> syscall(hw, instruction)
      [] function = "return_subroutine" -> return_subroutine(hw, instruction)
      [] function = "jump" -> jump(hw, instruction)
      [] function = "skip_if_zero" -> skip_if_zero(hw, instruction)
      [] function = "subroutine" -> subroutine(hw, instruction)
      [] function = "copy" -> copy(hw, instruction)
      [] function = "add" -> add(hw, instruction)
      [] function = "subtract" -> subtract(hw, instruction)
      [] function = "skip_if_equal" -> skip_if_equal(hw, instruction)
      [] function = "skip_if_greater" -> skip_if_greater(hw, instruction)
      [] function = "set" -> set(hw, instruction)

\* ------------------------------------------------------------------------
\* hardware/mod.rs: the API of Hardware
\* ------------------------------------------------------------------------

\* clock without the test of the error flag.
clock_ignoring_error_flag(hw) ==
    IF hw.program_counter >= hw.memory.len
    THEN { [hw |-> hw, result |-> "err", function |-> "none"] }
    ELSE LET instruction == MemRead(hw.memory, hw.program_counter)
             executer_function == get_function(instruction)
         IN IF executer_function = "unknown"
            THEN { [hw |-> hw, result |-> "err", function |-> "none"] }
            ELSE { [hw |-> IF o.result = "err" THEN [o.hw EXCEPT !.error_flag = TRUE] ELSE o.hw,
                    result |-> o.result,
                    function |-> executer_function] :
                   o \in Execute(executer_function, hw, instruction) }

\* Hardware::clock: the outcomes of one clock on hardware hw.  function is
\* the handler the clock called ("none" when it returned before calling one).
clock(hw) ==
    IF hw.error_flag THEN { [hw |-> hw, result |-> "err", function |-> "none"] }
    ELSE IF hw.program_counter >= hw.memory.len
    THEN { [hw |-> hw, result |-> "err", function |-> "none"] }
    ELSE LET instruction == MemRead(hw.memory, hw.program_counter)
             executer_function == get_function(instruction)
         IN IF executer_function = "unknown"
            THEN { [hw |-> hw, result |-> "err", function |-> "none"] }
            ELSE { [hw |-> IF o.result = "err" THEN [o.hw EXCEPT !.error_flag = TRUE] ELSE o.hw,
                    result |-> o.result,
                    function |-> executer_function] :
                   o \in Execute(executer_function, hw, instruction) }

\* load writing the words that fit before it reports that the data does not fit.
load_without_precheck(hw, data, start) ==
    IF start + Len(data) > hw.memory.len
    THEN ErrOutcome([hw EXCEPT !.memory =
                        MemWriteAll(hw.memory,
                                    SubSeq(data, 1, Max(0, hw.memory.len - start)), start, 1)])
    ELSE OkOutcome([hw EXCEPT !.memory = MemWriteAll(hw.memory, data, start, 1)])

\* Hardware::load
load(hw, data, start) ==
    IF start + Len(data) > hw.memory.len THEN ErrOutcome(hw)
    ELSE OkOutcome([hw EXCEPT !.memory = MemWriteAll(hw.memory, data, start, 1)])

\* Hardware::increase_memory; value is the Ok(new_size).
increase_memory(hw, additional) ==
    IF additional = 0 THEN [hw |-> hw, result |-> "err", value |-> 0]
    ELSE IF hw.memory.len + additional > MaxWord
    THEN [hw |-> hw, result |-> "err", value |-> 0]
    ELSE [hw |-> [hw EXCEPT !.memory.len = hw.memory.len + additional],
          result |-> "ok", value |-> hw.memory.len + additional]

\* Hardware::register_sys_callback
register_sys_callback(hw, callback) == [hw EXCEPT !.sys_callback = callback]

\* ------------------------------------------------------------------------
\* compiler/src/translator.rs: the assembler. A line and its parts are
\* strings; a translation is Ok(Some(word)), Ok(None) or Err.
\* ------------------------------------------------------------------------

starts_with(str, pattern) ==
    /\ Len(str) >= Len(pattern)
    /\ SubSeq(str, 1, Len(pattern)) = pattern

Whitespace == {" ", "\t"}

RECURSIVE trim_start(_)
trim_start(str) ==
    IF str # "" /\ Head(str) \in Whitespace THEN trim_start(Tail(str)) ELSE str

RECURSIVE trim_end(_)
trim_end(str) ==
    IF str # "" /\ SubSeq(str, Len(str), Len(str)) \in Whitespace
    THEN trim_end(SubSeq(str, 1, Len(str) - 1))
    ELSE str

\* str::trim
trim(str) == trim_end(trim_start(str))

RECURSIVE SplitFrom(_, _, _)
\* str::split(" "): the parts between single spaces, empty parts included.
SplitFrom(str, part, parts) ==
    IF str = "" THEN Append(parts, part)
    ELSE IF Head(str) = " " THEN SplitFrom(Tail(str), "", Append(parts, part))
    ELSE SplitFrom(Tail(str), part \o Head(str), parts)

split(str) == SplitFrom(str, "", <<>>)

UpperCase == "ABCDEFGHIJKLMNOPQRSTUVWXYZ"

LowerCase == "abcdefghijklmnopqrstuvwxyz"

Digits == "0123456789"

RECURSIVE IndexIn(_, _, _)
\* The position of a character in an alphabet, 0 when it is not in it.
IndexIn(char, alphabet, i) ==
    IF i > Len(alphabet) THEN 0
    ELSE IF SubSeq(alphabet, i, i) = char THEN i
    ELSE IndexIn(char, alphabet, i + 1)

RECURSIVE to_lowercase(_)
\* str::to_lowercase on ASCII text.
to_lowercase(str) ==
    IF str = "" THEN ""
    ELSE LET i == IndexIn(Head(str), UpperCase, 1)
         IN (IF i = 0 THEN Head(str) ELSE SubSeq(LowerCase, i, i)) \o to_lowercase(Tail(str))

RECURSIVE replace(_, _)
\* str::replace(pattern, ""): every occurrence of the pattern removed.
replace(str, pattern) ==
    IF str = "" THEN ""
    ELSE IF starts_with(str, pattern)
    THEN replace(SubSeq(str, Len(pattern) + 1, Len(str)), pattern)
    ELSE Head(str) \o replace(Tail(str), pattern)

RECURSIVE ParseDigits(_, _, _)
\* The digits of an unsigned number, read left to right; an Err on a
\* character that is no digit and on a value above max.
ParseDigits(str, value, max) ==
    IF str = "" THEN [ok |-> TRUE, value |-> value]
    ELSE LET i == IndexIn(Head(str), Digits, 1)
         IN IF i = 0 THEN [ok |-> FALSE, value |-> 0]
            ELSE IF value * 10 + (i - 1) > max THEN [ok |-> FALSE, value |-> 0]
            ELSE ParseDigits(Tail(str), value * 10 + (i - 1), max)

\* str::parse::<u8> and str::parse::<u16>: an optional "+" and at least one digit.
parse(str, max) ==
    IF str = "" \/ str = "+" \/ str = "-" THEN [ok |-> FALSE, value |-> 0]
    ELSE IF Head(str) = "+" THEN ParseDigits(Tail(str), 0, max)
    ELSE ParseDigits(str, 0, max)

MaxByte == 255

TranslateErr == [ok |-> FALSE, some |-> FALSE, word |-> 0]

TranslateNone == [ok |-> TRUE, some |-> FALSE, word |-> 0]

TranslateOk(word) == [ok |-> TRUE, some |-> TRUE, word |-> word]

\* The assembler before its first line.
NotTranslated ==
    [operation |-> "", operands |-> <<>>, line |-> "",
     translated |-> FALSE, result |-> TranslateNone]

\* translate_address: Ok(the 6-bit field) or Err.
translate_address(address_str) ==
    LET address_type ==
            IF starts_with(address_str, "rpm") THEN <<48, "rpm">>
            ELSE IF starts_with(address_str, "rp") THEN <<32, "rp">>
            ELSE IF starts_with(address_str, "m") THEN <<16, "m">>
            ELSE IF starts_with(address_str, "r") THEN <<0, "r">>
            ELSE <<0, "">>
        address_value == parse(replace(address_str, address_type[2]), MaxByte)
    IN IF address_type[2] = "" THEN [ok |-> FALSE, value |-> 0]
       ELSE IF ~address_value.ok THEN [ok |-> FALSE, value |-> 0]
       ELSE IF address_value.value > 7 THEN [ok |-> FALSE, value |-> 0]
       ELSE [ok |-> TRUE, value |-> BitOr(address_type[1], address_value.value)]

\* The encoders of the instructions without an operand.
NoOperandEncoder(args, template) ==
    IF Len(args) # 1 THEN TranslateErr ELSE TranslateOk(template)

\* The encoders of the instructions with one address.
OneAddressEncoder(args, template) ==
    IF Len(args) # 2 THEN TranslateErr
    ELSE LET address == translate_address(args[2])
         IN IF ~address.ok THEN TranslateErr
            ELSE TranslateOk(BitOr(template, address.value))

\* The encoders of the instructions with two addresses.
TwoAddressEncoder(args, template) ==
    IF Len(args) # 3 THEN TranslateErr
    ELSE LET first_address == translate_address(args[2])
             second_address == translate_address(args[3])
         IN IF ~first_address.ok THEN TranslateErr
            ELSE IF ~second_address.ok THEN TranslateErr
            ELSE TranslateOk(BitOr(BitOr(template, Shl16(first_address.value, 6)),
                                   second_address.value))

translator_data(args) ==
    IF Len(args) # 2 THEN TranslateErr
    ELSE LET data == parse(args[2], MaxWord)
         IN IF data.ok THEN TranslateOk(data.value) ELSE TranslateErr

translator_nop(args) == NoOperandEncoder(args, 0)

translator_subroutine(args) == OneAddressEncoder(args, 192)

translator_return_subroutine(args) == NoOperandEncoder(args, 2)

translator_syscall(args) == NoOperandEncoder(args, 1)

translator_copy(args) == TwoAddressEncoder(args, 4096)

\* The encoder of JUMP reading its first argument and ignoring further ones.
translator_jump_lenient(args) ==
    IF Len(args) < 2 THEN TranslateErr
    ELSE OneAddressEncoder(<<args[1], args[2]>>, 64)

translator_jump(args) == OneAddressEncoder(args, 64)

translator_skip_if_zero(args) == OneAddressEncoder(args, 128)

translator_add(args) == TwoAddressEncoder(args, 8192)

translator_subtract(args) == TwoAddressEncoder(args, 12288)

\* The literal is 0b00101_000000000000.
translator_skip_if_equal(args) == TwoAddressEncoder(args, 20480)

\* The literal is 0b00110_000000000000.
translator_skip_if_greater(args) == TwoAddressEncoder(args, 24576)

translator_set(args) ==
    IF Len(args) # 3 THEN TranslateErr
    ELSE IF ~starts_with(args[2], "r") THEN TranslateErr
    ELSE LET register_number == parse(replace(args[2], "r"), MaxByte)
             constant == parse(args[3], MaxWord)
         IN IF ~register_number.ok THEN TranslateErr
            ELSE IF register_number.value > 7 THEN TranslateErr
            ELSE IF ~constant.ok THEN TranslateErr
            ELSE IF constant.value >= 512 THEN TranslateErr
            ELSE TranslateOk(BitOr(BitOr(24576, Shl16(register_number.value, 9)),
                                   constant.value))

\* Translator::new: the keys of operations_map.
operations_map ==
    { "data", "nop", "subroutine", "return", "syscall", "copy", "jump",
      "skip_if_zero", "add", "subtract", "skip_if_equal", "skip_if_greater", "set" }

\* Calling the fn operations_map holds under a key.
Encode(key, args) ==
    CASE key = "data" -> translator_data(args)
      [] key = "nop" -> translator_nop(args)
      [] key = "subroutine" -> translator_subroutine(args)
      [] key = "return" -> translator_return_subroutine(args)
      [] key = "syscall" -> translator_syscall(args)
      [] key = "copy" -> translator_copy(args)
      [] key = "jump" -> translator_jump(args)
      [] key = "skip_if_zero" -> translator_skip_if_zero(args)
      [] key = "add" -> translator_add(args)
      [] key = "subtract" -> translator_subtract(args)
      [] key = "skip_if_equal" -> translator_skip_if_equal(args)
      [] key = "skip_if_greater" -> translator_skip_if_greater(args)
      [] key = "set" -> translator_set(args)

RECURSIVE ExtractFrom(_, _, _)
ExtractFrom(line_split, i, result) ==
    IF i > Len(line_split) THEN result
    ELSE IF starts_with(line_split[i], " ") \/ line_split[i] = ""
    THEN ExtractFrom(line_split, i + 1, result)
    ELSE IF starts_with(line_split[i], ";") THEN result
    ELSE ExtractFrom(line_split, i + 1, Append(result, to_lowercase(line_split[i])))

RECURSIVE ExtractFromCaseSensitive(_, _, _)
\* The loop of extract_parts pushing the parts as they are written.
ExtractFromCaseSensitive(line_split, i, result) ==
    IF i > Len(line_split) THEN result
    ELSE IF starts_with(line_split[i], " ") \/ line_split[i] = ""
    THEN ExtractFromCaseSensitive(line_split, i + 1, result)
    ELSE IF starts_with(line_split[i], ";") THEN result
    ELSE ExtractFromCaseSensitive(line_split, i + 1, Append(result, line_split[i]))

\* extract_parts without the conversion to lower case.
extract_parts_case_sensitive(line) == ExtractFromCaseSensitive(split(line), 1, <<>>)

\* Translator::extract_parts
extract_parts(line) == ExtractFrom(split(line), 1, <<>>)

\* Translator::translate_line
translate_line(line) ==
    LET trimmed == trim(line)
        line_parts == extract_parts(trimmed)
    IN IF starts_with(trimmed, ";") THEN TranslateNone
       ELSE IF Len(line_parts) = 0 THEN TranslateNone
       ELSE IF line_parts[1] \notin operations_map THEN TranslateErr
       ELSE Encode(line_parts[1], line_parts)

\* ------------------------------------------------------------------------
\* compiler/src/main.rs: the assembler CLI, and emulator/src/lib.rs: the
\* loader of its output.  A file is the sequence of its lines (source) or
\* of its bytes (binary).
\* ------------------------------------------------------------------------

\* No source given to the CLI yet, no binary written.
NoFile == [source |-> <<>>, bytes |-> <<>>, status |-> "absent"]

\* The two bytes compile_file writes for one instruction.
instruction_bytes(instruction) ==
    << Shr(BitAnd(instruction, 65280), 8), instruction % (MaxByte + 1) >>

RECURSIVE CompileLines(_, _, _)
\* The loop of compile_file over the lines from line_num on; written is what
\* the BufWriter holds.  process::exit(3) drops the BufWriter unflushed, so
\* the created file stays empty (programs here are far below its capacity).
CompileLines(lines, line_num, written) ==
    IF line_num > Len(lines) THEN [bytes |-> written, status |-> "compiled"]
    ELSE LET translated == translate_line(lines[line_num])
         IN IF ~translated.ok THEN [bytes |-> <<>>, status |-> "failed"]
            ELSE IF ~translated.some THEN CompileLines(lines, line_num + 1, written)
            ELSE CompileLines(lines, line_num + 1,
                              written \o instruction_bytes(translated.word))

\* compile_file: the binary file and how the process ended.
compile_file(lines) == CompileLines(lines, 1, <<>>)

RECURSIVE ReadInstructionsLowFirst(_, _)
\* The read loop of load_from_file taking the first byte of a pair as the
\* low byte of the word.
ReadInstructionsLowFirst(bytes, data) ==
    IF Len(bytes) = 0 THEN [ok |-> TRUE, data |-> data]
    ELSE IF Len(bytes) = 1 THEN [ok |-> FALSE, data |-> <<>>]
    ELSE ReadInstructionsLowFirst(SubSeq(bytes, 3, Len(bytes)),
                                  Append(data, BitOr(Shl16(bytes[2], 8), bytes[1])))

RECURSIVE ReadInstructions(_, _)
\* The read loop of load_from_file: Ok(data) or the Err of a single last byte.
ReadInstructions(bytes, data) ==
    IF Len(bytes) = 0 THEN [ok |-> TRUE, data |-> data]
    ELSE IF Len(bytes) = 1 THEN [ok |-> FALSE, data |-> <<>>]
    ELSE ReadInstructions(SubSeq(bytes, 3, Len(bytes)),
                          Append(data, BitOr(Shl16(bytes[1], 8), bytes[2])))

\* Emulator::load_from_file on a binary file of the given state.
load_from_file(hw, binary, start) ==
    IF binary.status = "absent" THEN ErrOutcome(hw)
    ELSE LET read == ReadInstructions(binary.bytes, <<>>)
         IN IF ~read.ok THEN ErrOutcome(hw)
            ELSE load(hw, read.data, start)

\* ------------------------------------------------------------------------
\* employees/src/machine.rs and main.rs: the machines of the arena
\* ------------------------------------------------------------------------

\* Machine::new: the machine registers a Weak of itself as the callback of
\* its emulator.
NewMachine(name, memory_size, initial_credit) ==
    [ name     |-> name,
      emulator |-> register_sys_callback(NewHardware(memory_size), "Live"),
      credit   |-> initial_credit ]

\* Machine::load_bot
load_bot(machine, binary) ==
    LET o == load_from_file(machine.emulator, binary, 0)
    IN [machine |-> [machine EXCEPT !.emulator = o.hw], result |-> o.result]

\* Machine::clock without the credit: the machine is clocked for as long as
\* its emulator clocks.
machine_clock_unmetered(machine) ==
    { [machine |-> [machine EXCEPT !.emulator = o.hw], result |-> o.result] :
      o \in clock(machine.emulator) }

\* Machine::clock testing and decrementing the credit before it clocks the
\* emulator: the instruction on which the credit reaches zero is not executed.
machine_clock_credit_first(machine) ==
    IF machine.credit <= 1
    THEN { [machine |-> [machine EXCEPT !.credit = 0], result |-> "err"] }
    ELSE { [machine |-> [machine EXCEPT !.emulator = o.hw, !.credit = machine.credit - 1],
            result  |-> IF o.result = "ok" THEN "ok" ELSE o.result] :
           o \in clock(machine.emulator) }

\* Machine::clock: the outcomes of one clock of a machine.  credit is a u16:
\* the decrement of a credit of zero panics in a build with overflow checks
\* and wraps in a build without.
machine_clock(machine) ==
    UNION { IF o.result \in {"panic", "deadlock"}
            THEN { [machine |-> machine, result |-> o.result] }
            ELSE IF o.result = "err"
            THEN { [machine |-> [machine EXCEPT !.emulator = o.hw], result |-> "err"] }
            ELSE IF machine.credit = 0
            THEN { [machine |-> machine, result |-> "panic"],
                   [machine |-> [machine EXCEPT !.emulator = o.hw, !.credit = MaxWord],
                    result  |-> "ok"] }
            ELSE { [machine |-> [machine EXCEPT !.emulator = o.hw,
                                                !.credit = machine.credit - 1],
                    result  |-> IF machine.credit - 1 = 0 THEN "err" ELSE "ok"] } :
            o \in clock(machine.emulator) }

\* Removal of the dead bots in the forward order of their indexes.
RECURSIVE remove_dead_bots_forward(_, _, _)
remove_dead_bots_forward(machines, bots_to_remove, i) ==
    IF i = 0 THEN machines
    ELSE LET at == bots_to_remove[Len(bots_to_remove) + 1 - i]
         IN remove_dead_bots_forward(
                IF at < Len(machines)
                THEN SubSeq(machines, 1, at) \o SubSeq(machines, at + 2, Len(machines))
                ELSE machines,
                bots_to_remove, i - 1)

\* start: the removal of the dead bots, from the last index pushed to the
\* first; i is the number of indexes still to remove.  Indexes count from
\* zero, as those of Vec::remove.
RECURSIVE remove_dead_bots(_, _, _)
remove_dead_bots(machines, bots_to_remove, i) ==
    IF i = 0 THEN machines
    ELSE LET index == bots_to_remove[i]
         IN remove_dead_bots(SubSeq(machines, 1, index)
                                 \o SubSeq(machines, index + 2, Len(machines)),
                             bots_to_remove, i - 1)

\* The arena before start is called.
NoArena ==
    [ machines       |-> <<>>,
      index          |-> 0,
      bots_to_remove |-> <<>>,
      status         |-> "absent",
      clocked        |-> <<>>,
      failed         |-> {},
      winner         |-> <<>>,
      initial_credit |-> 0,
      ticks          |-> 0 ]

\* start (main.rs) up to its main loop: a machine for each bot, loaded with the bot's
\* file; a failed load panics (expect).
\*   machines, index, bots_to_remove: the locals of start; index counts from
\*     zero and is the number of machines the for loop has passed;
\*   status: "running", "finished" (the loop broke), "panicked" or
\*     "deadlocked" (the thread of start stopped inside a call);
\*   clocked: the names of the machines whose clock has returned in this tick;
\*   failed: the names of the machines whose clock has returned an error;
\*   winner: the names start has announced as the winner;
\*   initial_credit: the argument of start;
\*   ticks: the number of passes of the main loop that have ended.
start_arena(bots, initial_memory, initial_credit) ==
    LET loaded == [ i \in 1..Len(bots) |->
                      load_bot(NewMachine(bots[i].path, initial_memory, initial_credit),
                               bots[i].binary) ]
    IN [ machines       |-> [ i \in 1..Len(bots) |-> loaded[i].machine ],
         index          |-> 0,
         bots_to_remove |-> <<>>,
         status         |-> IF \E i \in 1..Len(bots) : loaded[i].result # "ok"
                            THEN "panicked" ELSE "running",
         clocked        |-> <<>>,
         failed         |-> {},
         winner         |-> <<>>,
         initial_credit |-> initial_credit,
         ticks          |-> 0 ]

\* ------------------------------------------------------------------------
\* The host of one Hardware: the state machine of its public API
\* ------------------------------------------------------------------------

VARIABLES
    hardware,       \* the Hardware value
    last,           \* the last API call on it: its name, its result ("ok", "err",
                    \* "panic"), the handler a clock called ("none" when it
                    \* returned before calling one) and the value of an Ok(value)
    clock_failed,   \* whether some clock call on it has returned Err
    assembler,      \* the last line given to the assembler and its translation
    file,           \* the source file given to the assembler CLI and the
                    \* binary file it wrote
    arena           \* the game loop of the arena: its machines, its position
                    \* in the tick and what it did in the tick

vars == <<hardware, last, clock_failed, assembler, file, arena>>

\* Length of the small memory a Hardware is constructed with.
MemSize == 12

\* How many cells increase_memory may add to a small memory in a run.
MaxGrow == 1

\* How far from either end of the address range the PC is followed.
PCWindow == 12

MemorySizes == {MemSize, MaxWord}

\* The `additional` arguments of increase_memory.
Additionals == {0, 1, MaxWord - MemSize, MaxWord}

\* Operand fields as the decoder reads them: mode bits 5..4, register in bits 3..0.
R(n) == n

M(n) == 16 + n

RP(n) == 32 + n

RPM(n) == 48 + n

\* Instruction words as Operations::new keys them.
NOP == 0

SYSCALL == 1

RETURN == 2

JUMP(a) == 64 + a

SKIP_IF_ZERO(a) == 128 + a

SUBROUTINE(a) == 192 + a

COPY(a, b) == 4096 + 64 * a + b

ADD(a, b) == 8192 + 64 * a + b

SUBTRACT(a, b) == 12288 + 64 * a + b

SKIP_IF_EQUAL(a, b) == 16384 + 64 * a + b

SKIP_IF_GREATER(a, b) == 20480 + 64 * a + b

SET(n, k) == 24576 + 512 * n + k

\* The clock is followed while the PC is within PCWindow of either end of the
\* address range, or beyond the memory (where the clock fails at once).
InWindow(hw) ==
    \/ hw.program_counter <= PCWindow
    \/ hw.program_counter >= MaxWord - PCWindow
    \/ hw.program_counter >= hw.memory.len

Call(name, result, function, value) ==
    [call |-> name, result |-> result, function |-> function, value |-> value]

Running == last.result # "panic"

RECURSIVE LoadAll(_, _, _)
\* The loads of an image, made in order: image[i] = <<data, start>>.
LoadAll(hw, image, from) ==
    IF from > Len(image) THEN hw
    ELSE LoadAll(load(hw, image[from][1], image[from][2]).hw, image, from + 1)

\* A Hardware constructed with one of the sizes and loaded with one of the
\* images, before its first clock (Hardware::new, then load, as the arena
\* and the tests do).
Booted(sizes, images) ==
    /\ \E memory_size \in sizes, image \in images :
          hardware = LoadAll(NewHardware(memory_size), image, 1)
    /\ last = Call("new", "ok", "none", 0)
    /\ clock_failed = FALSE
    /\ assembler = NotTranslated
    /\ file = NoFile
    /\ arena = NoArena

Clock ==
    /\ Running
    /\ InWindow(hardware)
    /\ \E o \in clock(hardware) :
        /\ hardware' = o.hw
        /\ last' = Call("clock", o.result, o.function, 0)
        /\ clock_failed' = (clock_failed \/ o.result = "err")
    /\ UNCHANGED <<assembler, file, arena>>

Load(data, start) ==
    /\ Running
    /\ LET o == load(hardware, data, start)
       IN /\ hardware' = o.hw
          /\ last' = Call("load", o.result, "none", 0)
    /\ UNCHANGED <<clock_failed, assembler, file, arena>>

IncreaseMemory(additional) ==
    /\ Running
    /\ LET o == increase_memory(hardware, additional)
       IN /\ o.result = "ok" => o.value <= MemSize + MaxGrow
          /\ hardware' = o.hw
          /\ last' = Call("increase_memory", o.result, "none", o.value)
    /\ UNCHANGED <<clock_failed, assembler, file, arena>>

RegisterSysCallback ==
    /\ Running
    /\ hardware' = register_sys_callback(hardware, "Live")
    /\ last' = Call("register_sys_callback", "ok", "none", 0)
    /\ UNCHANGED <<clock_failed, assembler, file, arena>>

\* The owner of the registered callback is dropped: the Weak no longer upgrades.
DropCallbackOwner ==
    /\ Running
    /\ hardware.sys_callback = "Live"
    /\ hardware' = [hardware EXCEPT !.sys_callback = "Dropped"]
    /\ last' = Call("drop_callback_owner", "ok", "none", 0)
    /\ UNCHANGED <<clock_failed, assembler, file, arena>>

\* ------------------------------------------------------------------------
\* Spec: a host that uses the whole API on programs exercising the error
\* paths, the call stack and the syscall bridge
\* ------------------------------------------------------------------------

\* A word no entry of the operations table matches (double-operand key 0xF000).
IllegalWord == 15 * 4096 + 1011

StackProgram ==
    << SET(1, 4), SET(2, 6), SUBROUTINE(R(1)), RETURN,
       SUBROUTINE(R(2)), RETURN, RETURN >>

RecursionProgram == << SET(1, 1), SUBROUTINE(R(1)) >>

SyscallProgram == << SYSCALL, SYSCALL >>

\* A register index above 7, an address beyond a small memory, an
\* unsupported addressing mode.
BadOperandProgram == << SET(1, 100), SKIP_IF_ZERO(M(1)), JUMP(R(8)), SKIP_IF_ZERO(RP(0)) >>

Images ==
    { <<>>,
      << <<StackProgram, 0>> >>,
      << <<RecursionProgram, 0>> >>,
      << <<SyscallProgram, 0>> >>,
      << <<BadOperandProgram, 0>> >> }

\* What the host loads while the machine runs.
Patches ==
    { << <<IllegalWord>>, 1 >>,
      << <<NOP>>, 1 >>,
      << <<NOP, NOP>>, MemSize - 1 >> }

Init == Booted(MemorySizes, Images)

Next ==
    \/ Clock
    \/ \E p \in Patches : Load(p[1], p[2])
    \/ \E additional \in Additionals : IncreaseMemory(additional)
    \/ RegisterSysCallback
    \/ DropCallbackOwner

Spec == Init /\ [][Next]_vars

\* ------------------------------------------------------------------------
\* SpecOperands: one instruction with operands in registers and memory,
\* executed at the bottom of the memory and at its very top
\* ------------------------------------------------------------------------

\* Brings a and b into r1 and r2 and into the cells r3 and r4 point to, then
\* jumps to the instruction under test.
Prologue ==
    << SET(3, 8), SET(4, 9), SET(5, 10),
       COPY(M(3), R(1)), COPY(M(4), R(2)), COPY(M(5), R(5)), JUMP(R(5)) >>

TestImage(instruction, a, b, target) ==
    << <<Prologue, 0>>, << <<a, b, target>>, 8 >>, << <<instruction>>, target >> >>

\* Operand values: both ends of the word range, and two whose sum overflows.
OperandValues == {0, 1, 40000, MaxWord}

\* Operand fields: registers, memory cells, and the cell at PC + r6.
OperandPairs ==
    { <<R(1), R(2)>>, <<M(3), M(4)>>, <<R(1), M(4)>>, <<M(3), R(2)>>,
      <<R(1), R(1)>>, <<M(3), M(3)>>, <<RPM(6), R(1)>>, <<R(1), RPM(6)>> }

TestInstructions ==
    UNION { { COPY(p[1], p[2]), ADD(p[1], p[2]), SUBTRACT(p[1], p[2]),
              SKIP_IF_EQUAL(p[1], p[2]), SKIP_IF_GREATER(p[1], p[2]) } : p \in OperandPairs }
    \cup { SKIP_IF_ZERO(R(1)), SKIP_IF_ZERO(M(3)), SKIP_IF_ZERO(RPM(6)) }

\* Where the instruction under test sits: the last cell of a small memory;
\* in a memory of the maximum length, behind the data or in the last two cells.
TestTargets(memory_size) ==
    IF memory_size = MemSize THEN { MemSize - 1 }
    ELSE { MemSize - 1, MaxWord - 2, MaxWord - 1 }

OperandImages(memory_size) ==
    { TestImage(instruction, a, b, target) :
        instruction \in TestInstructions, a \in OperandValues, b \in OperandValues,
        target \in TestTargets(memory_size) }

OperandsInit ==
    \E memory_size \in MemorySizes : Booted({memory_size}, OperandImages(memory_size))

\* The host overwrites the first operand in memory while the machine runs.
OperandPatch == << <<MaxWord - 1>>, 8 >>

OperandsNext ==
    \/ Clock
    \/ Load(OperandPatch[1], OperandPatch[2])

SpecOperands == OperandsInit /\ [][OperandsNext]_vars

\* ------------------------------------------------------------------------
\* SpecModes: one instruction with an operand in each addressing mode, on a
\* legal register and on an illegal one, with register values that keep the
\* address inside the memory, put it beyond its end, or overflow with PC
\* ------------------------------------------------------------------------

\* The operand under test names r1 (legal) or register 9 (illegal).
ModeFields == { R(1), M(1), RP(1), RPM(1), R(9), M(9), RP(9), RPM(9) }

ModeInstructions ==
    UNION { { JUMP(f), SKIP_IF_ZERO(f), SUBROUTINE(f),
              COPY(f, R(2)), COPY(R(2), f), ADD(f, R(2)), ADD(R(2), f),
              SUBTRACT(f, R(2)), SUBTRACT(R(2), f),
              SKIP_IF_EQUAL(f, R(2)), SKIP_IF_EQUAL(R(2), f),
              SKIP_IF_GREATER(f, R(2)), SKIP_IF_GREATER(R(2), f) } : f \in ModeFields }

\* r1: an address inside every memory, one beyond a small memory, and the
\* top of the word range.
ModeValues == {0, 1, 40000, MaxWord}

ModeImages(memory_size) ==
    { TestImage(instruction, a, b, target) :
        instruction \in ModeInstructions, a \in ModeValues, b \in {0, 1},
        target \in TestTargets(memory_size) }

ModesInit ==
    \E memory_size \in MemorySizes : Booted({memory_size}, ModeImages(memory_size))

SpecModes == ModesInit /\ [][OperandsNext]_vars

\* ------------------------------------------------------------------------
\* SpecDecode: every 16-bit word in the first cell of a small memory, clocked
\* ------------------------------------------------------------------------

DecodeImages == { << <<(<<word>>), 0>> >> : word \in Words }

DecodeInit == Booted({MemSize}, DecodeImages)

DecodeNext == Clock

SpecDecode == DecodeInit /\ [][DecodeNext]_vars

\* ------------------------------------------------------------------------
\* SpecLoad: a host loading data around the end of the memory while the
\* machine runs
\* ------------------------------------------------------------------------

LoadData == { <<>>, <<7>>, <<7, 9>> }

LoadStarts == { MemSize - 2, MemSize - 1, MemSize, MaxWord }

LoadInit == Booted(MemorySizes, Images)

LoadNext ==
    \/ Clock
    \/ \E data \in LoadData, start \in LoadStarts : Load(data, start)

SpecLoad == LoadInit /\ [][LoadNext]_vars

\* ------------------------------------------------------------------------
\* SpecFile: sources assembled by the CLI and the binary loaded by the
\* emulator, whole or with its last byte missing
\* ------------------------------------------------------------------------

\* main of the compiler on a source file: compile_file writes input.bin.
\* The CLI is run once in a behaviour.
CompileFile(source) ==
    /\ file.status = "absent"
    /\ LET compiled == compile_file(source)
       IN file' = [source |-> source, bytes |-> compiled.bytes, status |-> compiled.status]
    /\ UNCHANGED <<hardware, last, clock_failed, assembler, arena>>

\* The binary file loses its last byte before the emulator reads it.
TruncateFile ==
    /\ file.status = "compiled"
    /\ Len(file.bytes) > 0
    /\ file' = [file EXCEPT !.bytes = SubSeq(file.bytes, 1, Len(file.bytes) - 1)]
    /\ UNCHANGED <<hardware, last, clock_failed, assembler, arena>>

\* Emulator::load_from_file; the value of the call is its start argument.
LoadFromFile(start) ==
    /\ Running
    /\ LET o == load_from_file(hardware, file, start)
       IN /\ hardware' = o.hw
          /\ last' = Call("load_from_file", o.result, "none", start)
    /\ UNCHANGED <<clock_failed, assembler, file, arena>>

FileSources ==
    { <<>>,
      << "nop" >>,
      << "; boot", "SET r1 300", "", "  jump R1 ; go" >>,
      << "data 65535", "data 256", "data 255" >>,
      << "syscall", "halt" >> }

FileStarts == { 0, MemSize - 2, MemSize }

FileInit == Booted({MemSize}, {<<>>})

FileNext ==
    \/ \E source \in FileSources : CompileFile(source)
    \/ TruncateFile
    \/ \E start \in FileStarts : LoadFromFile(start)

SpecFile == FileInit /\ [][FileNext]_vars

\* ------------------------------------------------------------------------
\* SpecAsm: the assembler translating lines one at a time
\* ------------------------------------------------------------------------

RECURSIVE to_uppercase(_)
to_uppercase(str) ==
    IF str = "" THEN ""
    ELSE LET i == IndexIn(Head(str), LowerCase, 1)
         IN (IF i = 0 THEN Head(str) ELSE SubSeq(UpperCase, i, i)) \o to_uppercase(Tail(str))

RECURSIVE Join(_, _, _)
\* The parts from the i-th on, each preceded by the separator.
Join(parts, separator, i) ==
    IF i > Len(parts) THEN ""
    ELSE separator \o parts[i] \o Join(parts, separator, i + 1)

\* How a line is written: as it is, in upper case, with extra spaces, or
\* followed by a comment.
LineStyles == {"plain", "upper", "spaced", "commented"}

WriteLine(mnemonic, operands, style) ==
    CASE style = "plain" -> mnemonic \o Join(operands, " ", 1)
      [] style = "upper" -> to_uppercase(mnemonic \o Join(operands, " ", 1))
      [] style = "spaced" -> "  " \o mnemonic \o Join(operands, "   ", 1) \o " "
      [] style = "commented" -> mnemonic \o Join(operands, " ", 1) \o " ;r9 r9"

\* The first words of the lines: every key of the assembler, and an unknown one.
LineOperations == operations_map \cup {"halt"}

\* Addresses of the four kinds, a register above 7, numbers within and
\* beyond the 9 bits of SET, and a word that is neither.
OperandTokens == {"r0", "r7", "m3", "rp1", "rpm5", "r8", "7", "511", "512", "x2"}

OperandLists ==
    {<<>>} \cup { <<a>> : a \in OperandTokens }
           \cup { <<a, b>> : a \in OperandTokens, b \in OperandTokens }
           \cup { <<"r0", "r7", "m3">>, <<"r0", "7", "511">> }

BlankLines == {"", "   ", "; add r1 r2", "  ;comment"}

\* The lines given to the assembler, each with the operation and the operands
\* it was written from (none for a blank line or a comment line).
SourceLines ==
    { [operation |-> operation, operands |-> operands,
       line |-> WriteLine(operation, operands, style),
       translated |-> FALSE, result |-> TranslateNone] :
        operation \in LineOperations, operands \in OperandLists, style \in LineStyles }
    \cup { [NotTranslated EXCEPT !.line = line] : line \in BlankLines }

\* Translator::translate_line on the line at hand.
TranslateLine ==
    /\ ~assembler.translated
    /\ assembler' = [assembler EXCEPT !.translated = TRUE,
                                      !.result = translate_line(assembler.line)]
    /\ UNCHANGED <<hardware, last, clock_failed, file, arena>>

AsmInit ==
    /\ hardware = NewHardware(MemSize)
    /\ last = Call("new", "ok", "none", 0)
    /\ clock_failed = FALSE
    /\ assembler \in SourceLines
    /\ file = NoFile
    /\ arena = NoArena

AsmNext == TranslateLine

SpecAsm == AsmInit /\ [][AsmNext]_vars

\* ------------------------------------------------------------------------
\* SpecAddress: the assembler translating a JUMP whose operand is written
\* in many right and wrong ways
\* ------------------------------------------------------------------------

\* Operand tokens: a prefix or none, letters of a prefix, a sign or a zero
\* again, a number within or beyond 0..7 or none, and a trailing letter or none.
AddressTokens ==
    { prefix \o infix \o number \o suffix :
        prefix \in {"", "r", "m", "rp", "rpm", "x"},
        infix \in {"", "r", "m", "p", "+", "-", "0"},
        number \in {"", "0", "7", "8", "12"},
        suffix \in {"", "r", "x"} }

AddressLines ==
    { [operation |-> "jump", operands |-> <<token>>, line |-> "jump " \o token,
       translated |-> FALSE, result |-> TranslateNone] : token \in AddressTokens }

AddressInit ==
    /\ hardware = NewHardware(MemSize)
    /\ last = Call("new", "ok", "none", 0)
    /\ clock_failed = FALSE
    /\ assembler \in AddressLines
    /\ file = NoFile
    /\ arena = NoArena

SpecAddress == AddressInit /\ [][AsmNext]_vars

\* ------------------------------------------------------------------------
\* SpecSet: a SET line assembled, its word loaded at address 0 and clocked
\* ------------------------------------------------------------------------

\* SET lines: destinations in and out of register mode and of r0..r7,
\* constants around the 9-bit and the 16-bit limits, and words that are not
\* numbers.
SetLines ==
    { [operation |-> "set", operands |-> <<destination, constant>>,
       line |-> "SET " \o destination \o " " \o constant,
       translated |-> FALSE, result |-> TranslateNone] :
        destination \in {"r0", "r3", "r7", "r8", "m3", "rp1", "rpm5", "x2", "7"},
        constant \in {"0", "1", "300", "511", "512", "65535", "65536", "r1"} }

SetInit ==
    /\ hardware = NewHardware(MemSize)
    /\ last = Call("new", "ok", "none", 0)
    /\ clock_failed = FALSE
    /\ assembler \in SetLines
    /\ file = NoFile
    /\ arena = NoArena

\* The host loads the word the assembler produced at address 0.
LoadTranslated ==
    /\ assembler.translated
    /\ assembler.result.ok
    /\ assembler.result.some
    /\ Load(<<assembler.result.word>>, 0)

SetNext ==
    \/ TranslateLine
    \/ LoadTranslated
    \/ Clock

SpecSet == SetInit /\ [][SetNext]_vars

\* ------------------------------------------------------------------------
\* SpecFields: the assembler translating the instructions with addresses,
\* every prefix with every register number in one operand at least
\* ------------------------------------------------------------------------

\* The lines, each with the operands it was written from as pairs of a
\* prefix and a register number.
FieldLines ==
    LET Every == { <<prefix, n>> : prefix \in {"r", "m", "rp", "rpm"}, n \in RegisterIndexes }
        Some == { <<"r", 0>>, <<"m", 5>>, <<"rp", 7>>, <<"rpm", 2>> }
        Token(operand) == operand[1] \o SubSeq(Digits, operand[2] + 1, operand[2] + 1)
    IN { [operation |-> operation, operands |-> <<a>>,
          line |-> operation \o " " \o Token(a),
          translated |-> FALSE, result |-> TranslateNone] :
            operation \in {"jump", "skip_if_zero", "subroutine"}, a \in Every }
       \cup
       { [operation |-> operation, operands |-> pair,
          line |-> operation \o " " \o Token(pair[1]) \o " " \o Token(pair[2]),
          translated |-> FALSE, result |-> TranslateNone] :
            operation \in {"copy", "add", "subtract", "skip_if_equal", "skip_if_greater"},
            pair \in (Every \X Some) \cup (Some \X Every) }

FieldInit ==
    /\ hardware = NewHardware(MemSize)
    /\ last = Call("new", "ok", "none", 0)
    /\ clock_failed = FALSE
    /\ assembler \in FieldLines
    /\ file = NoFile
    /\ arena = NoArena

SpecFields == FieldInit /\ [][AsmNext]_vars

\* ------------------------------------------------------------------------
\* SpecTask: a small task of the arena, loaded at 0 and clocked
\* ------------------------------------------------------------------------

\* make_small_task with the three random numbers it drew: the words it
\* pushes (SET R4 9; three COPY from the cell at 9 + PC to R1, R2, R3; three
\* ADD R1 R2; two SUBTRACT R2 R3; RETURN; d1, d2, d3) and the result it
\* expects.  The random id is not modelled: nothing reads it.
make_small_task(d1, d2, d3) ==
    [ code            |-> << 26633, 7425, 7426, 7427, 8258, 8258, 8258, 12419, 12419, 2,
                             d1, d2, d3 >>,
      expected_result |-> (d1 + d1 + d1 + d2) - (d3 + d3) ]

\* Memory of the machine a task is run on.
TaskMemory == 15

\* The numbers drawn: both ends of each range and one inside it.
TaskInit ==
    Booted({TaskMemory},
           { << <<make_small_task(d1, d2, d3).code, 0>> >> :
               d1 \in {1, 500, 999}, d2 \in {1000, 1500, 1999}, d3 \in {1, 250, 499} })

SpecTask == TaskInit /\ [][DecodeNext]_vars

\* ------------------------------------------------------------------------
\* The arena: the main loop of start, one step for each clock of a machine
\* and one for the end of a tick
\* ------------------------------------------------------------------------

\* Memory each machine of the arena is constructed with.
InitialMemory == 4

\* Credits the machines of one arena start with.
InitialCredits == {0, 1, 3}

\* Largest number of bots given to one arena.
MaxBots == 3

\* The lists of bot files given to start.  The files are the two of the
\* test two_bots (SET, SET, ADD; NOP and an unknown word), one of the unknown
\* word only and one that is NOP, SYSCALL; the path of a bot is its position
\* in the list.
ArenaBots ==
    UNION { [ 1..n -> { [bytes |-> bytes, status |-> "compiled"] :
                          bytes \in { <<98, 120, 100, 140, 32, 66>>, <<0, 0, 243, 255>>,
                                      <<243, 255>>, <<0, 0, 0, 1>> } } ] :
            n \in 1..MaxBots }

ArenaInit ==
    /\ hardware = NewHardware(MemSize)
    /\ last = Call("new", "ok", "none", 0)
    /\ clock_failed = FALSE
    /\ assembler = NotTranslated
    /\ file = NoFile
    /\ \E files \in ArenaBots, initial_credit \in InitialCredits :
          arena = start_arena([ i \in DOMAIN files |->
                                  [path |-> i, binary |-> files[i]] ],
                              InitialMemory, initial_credit)

\* One pass of the for loop of start: the lock of the machine's Mutex is
\* taken, the machine is clocked under it, and the index of a machine whose
\* clock returned an error is pushed.  A clock that does not return stops
\* the thread of start.
ArenaClock ==
    /\ arena.status = "running"
    /\ arena.index < Len(arena.machines)
    /\ LET bot_machine == arena.machines[arena.index + 1]
           locked == [bot_machine EXCEPT !.emulator.sys_callback = "Held"]
       IN \E o \in machine_clock(locked) :
            arena' =
              IF o.result = "panic" THEN [arena EXCEPT !.status = "panicked"]
              ELSE IF o.result = "deadlock" THEN [arena EXCEPT !.status = "deadlocked"]
              ELSE [arena EXCEPT
                      !.machines[arena.index + 1] =
                          [o.machine EXCEPT !.emulator.sys_callback = "Live"],
                      !.bots_to_remove =
                          IF o.result = "err" THEN Append(@, arena.index) ELSE @,
                      !.index = @ + 1,
                      !.clocked = Append(@, bot_machine.name),
                      !.failed = IF o.result = "err" THEN @ \cup {bot_machine.name} ELSE @]
    /\ UNCHANGED <<hardware, last, clock_failed, assembler, file>>

\* The end of a pass of the main loop: the dead bots are removed, the loop
\* breaks when no machine or one machine is left, and the next tick starts
\* otherwise.
ArenaEndTick ==
    /\ arena.status = "running"
    /\ arena.index = Len(arena.machines)
    /\ LET remaining == remove_dead_bots(arena.machines, arena.bots_to_remove,
                                         Len(arena.bots_to_remove))
       IN arena' = [arena EXCEPT
                      !.machines = remaining,
                      !.index = 0,
                      !.bots_to_remove = <<>>,
                      !.status = IF Len(remaining) <= 1 THEN "finished" ELSE "running",
                      !.clocked = <<>>,
                      !.ticks = @ + 1,
                      !.winner = IF Len(remaining) = 1 THEN <<remaining[1].name>> ELSE <<>>]
    /\ UNCHANGED <<hardware, last, clock_failed, assembler, file>>

ArenaNext == ArenaClock \/ ArenaEndTick

SpecArena == ArenaInit /\ [][ArenaNext]_vars

\* start runs on a thread of its own that is always scheduled: a pass of its
\* loops that can be made is made.  The fairness of ArenaClock is written
\* out, with the guard of ArenaClock for its ENABLED: a clock of a machine
\* always has an outcome and every outcome changes the arena.
SpecArenaFair ==
    /\ SpecArena
    /\ WF_vars(ArenaEndTick)
    /\ \/ []<>(~(arena.status = "running" /\ arena.index < Len(arena.machines)))
       \/ []<><<ArenaClock>>_vars

\* ------------------------------------------------------------------------
\* SpecFrame: one instruction of each handler behind the prologue, and the
\* program of nested calls, with and without a registered callback
\* ------------------------------------------------------------------------

FrameImages ==
    { TestImage(instruction, a, b, target) :
        instruction \in { NOP, SYSCALL, RETURN, JUMP(R(2)), JUMP(RP(6)), JUMP(RPM(6)),
                          SKIP_IF_ZERO(R(1)), SKIP_IF_ZERO(M(3)), SUBROUTINE(M(3)),
                          SUBROUTINE(M(1)),
                          COPY(R(1), R(2)), COPY(M(3), M(4)), COPY(R(1), RPM(6)),
                          ADD(R(1), R(2)), ADD(M(3), M(4)), ADD(R(1), R(1)),
                          SUBTRACT(R(1), R(2)), SUBTRACT(R(1), M(4)), SUBTRACT(R(2), RPM(6)),
                          SKIP_IF_EQUAL(R(1), M(4)), SKIP_IF_GREATER(M(3), R(2)),
                          SET(4, 511), SET(0, 0) },
        a \in OperandValues, b \in {1, 5}, target \in TestTargets(MemSize) }
    \cup { << <<StackProgram, 0>> >> }

FrameInit == Booted({MemSize}, FrameImages)

FrameNext ==
    \/ Clock
    \/ RegisterSysCallback

SpecFrame == FrameInit /\ [][FrameNext]_vars

\* ------------------------------------------------------------------------
\* The specification's reading of an operand field (spec 4.2), used to state
\* the properties: bits 5..4 are the mode, bits 3..0 the register index.
\* ------------------------------------------------------------------------

FieldMode(field) == (field \div 16) % 4

FieldRegister(field) == field % 16

\* The instruction the next clock fetches.
Fetched(hw) == MemRead(hw.memory, hw.program_counter)

\* value-of(field): r[n], Memory[r[n]], min(r[n] + PC, 65535), Memory[r[n] + PC].
ValueOf(hw, field) ==
    LET n == FieldRegister(field)
    IN CASE FieldMode(field) = 0 -> hw.registers[n]
         [] FieldMode(field) = 1 -> MemRead(hw.memory, hw.registers[n])
         [] FieldMode(field) = 2 -> Min(hw.registers[n] + hw.program_counter, MaxWord)
         [] FieldMode(field) = 3 -> MemRead(hw.memory, hw.registers[n] + hw.program_counter)

\* The register or memory cell an operand field names, for a field in
\* register, memory or memory-at-register-plus-PC mode.
Location(hw, field) ==
    LET n == FieldRegister(field)
    IN CASE FieldMode(field) = 0 -> <<"register", n>>
         [] FieldMode(field) = 1 -> <<"memory", hw.registers[n]>>
         [] FieldMode(field) = 3 -> <<"memory", hw.registers[n] + hw.program_counter>>

ReadAt(hw, location) ==
    IF location[1] = "register" THEN hw.registers[location[2]]
    ELSE MemRead(hw.memory, location[2])

\* The field names a register r0..r7 or a cell inside the memory.
IsLocation(hw, field) ==
    /\ FieldRegister(field) <= 7
    /\ FieldMode(field) \in {0, 1, 3}
    /\ FieldMode(field) # 0 => Location(hw, field)[2] < hw.memory.len

\* The two operand fields of a double-operand word: a in bits 11..6, b in bits 5..0.
FieldA(word) == (word \div 64) % 64

FieldB(word) == word % 64

\* A clock step, its result and the handler it called.
ClockStep == last'.call = "clock"

ClockStepOf(function) == last'.call = "clock" /\ last'.function = function

\* ------------------------------------------------------------------------
\* Properties of the error flag
\* ------------------------------------------------------------------------

\* C1: every clock() call that returns an error leaves the error flag set,
\* whatever the cause (PC beyond the memory, unknown opcode, bad operand,
\* call-stack overflow or underflow, failing syscall).
C1_FailedClockSetsErrorFlag ==
    (last.call = "clock" /\ last.result = "err") => hardware.error_flag

\* C2: once the error flag is set, no call clears it, and every later clock
\* returns an error before calling a handler and changes nothing of the
\* hardware (PC, registers, memory, call stack, flags).
C2_ErrorFlagSticky ==
    [][hardware.error_flag =>
          /\ hardware'.error_flag
          /\ ClockStep => /\ last'.result = "err"
                          /\ last'.function = "none"
                          /\ hardware' = hardware]_vars

\* A clock refused on an errored hardware whose memory was loaded and grown
\* and whose callback was registered after the error.
C2_Witness ==
    /\ hardware.error_flag
    /\ last = Call("clock", "err", "none", 0)
    /\ hardware.program_counter = 3
    /\ hardware.underflow_flag
    /\ hardware.memory.len = MemSize + 1
    /\ MemRead(hardware.memory, 1) = IllegalWord
    /\ hardware.sys_callback = "Live"

\* C3: errors are non-recoverable: after a clock() that failed, every later
\* clock() on the same hardware fails too, whatever load, increase_memory and
\* register_sys_callback calls were made in between.
C3_FailedClockStaysFailed ==
    (clock_failed /\ last.call = "clock") => last.result = "err"

\* ------------------------------------------------------------------------
\* Properties of the call stack
\* ------------------------------------------------------------------------

\* C9: a successful SUBROUTINE at PC = p pushes p + 1 and sets PC to the
\* resolved target; a successful RETURN sets PC to the newest return address
\* and pops exactly that entry; no other instruction changes the call stack.
\* Hence the RETURN matching a SUBROUTINE (nested pairs included, in LIFO
\* order) sets PC to p + 1 and restores the stack as it was before the call.
C9_StackDiscipline ==
    [][(ClockStep /\ last'.result = "ok") =>
          /\ last'.function = "subroutine" =>
                /\ hardware'.call_stack =
                       Append(hardware.call_stack, hardware.program_counter + 1)
                /\ hardware'.program_counter =
                       ValueOf(hardware, Fetched(hardware) % 64)
          /\ last'.function = "return_subroutine" =>
                /\ Len(hardware.call_stack) > 0
                /\ hardware'.program_counter = hardware.call_stack[Len(hardware.call_stack)]
                /\ hardware'.call_stack =
                       SubSeq(hardware.call_stack, 1, Len(hardware.call_stack) - 1)
          /\ last'.function \notin {"subroutine", "return_subroutine"} =>
                hardware'.call_stack = hardware.call_stack]_vars

\* The inner RETURN of StackProgram has returned behind the inner SUBROUTINE
\* (at 4) with the outer return address (3) still on the stack.
C9_WitnessInner ==
    /\ last = Call("clock", "ok", "return_subroutine", 0)
    /\ hardware.program_counter = 5
    /\ hardware.call_stack = <<3>>

\* C10: the call stack never holds more than the configured maximum; a
\* SUBROUTINE executed on a full stack sets the overflow flag, fails the
\* clock and pushes nothing.
C10_StackBounded ==
    /\ [](Len(hardware.call_stack) <= CallStackSize)
    /\ [][(ClockStepOf("subroutine") /\ Len(hardware.call_stack) = CallStackSize) =>
             /\ last'.result = "err"
             /\ hardware'.overflow_flag
             /\ hardware'.error_flag
             /\ hardware'.call_stack = hardware.call_stack]_vars

\* A SUBROUTINE was refused on a full stack.
C10_Witness ==
    /\ last = Call("clock", "err", "subroutine", 0)
    /\ Len(hardware.call_stack) = CallStackSize
    /\ hardware.overflow_flag

\* ------------------------------------------------------------------------
\* Properties of the skip and arithmetic instructions
\* ------------------------------------------------------------------------

\* Whether the spec's skip predicate holds of the fetched instruction.
SkipPredicate(hw, function) ==
    LET word == Fetched(hw)
    IN CASE function = "skip_if_zero" -> ValueOf(hw, FieldB(word)) = 0
         [] function = "skip_if_equal" ->
                ValueOf(hw, FieldA(word)) = ValueOf(hw, FieldB(word))
         [] function = "skip_if_greater" ->
                ValueOf(hw, FieldA(word)) > ValueOf(hw, FieldB(word))

SkipOperandsResolve(hw, function) ==
    LET word == Fetched(hw)
    IN /\ IsLocation(hw, FieldB(word))
       /\ function # "skip_if_zero" => IsLocation(hw, FieldA(word))

\* C6: a SKIP_IF_ZERO / SKIP_IF_EQUAL / SKIP_IF_GREATER whose operands
\* resolve succeeds and sets PC to exactly PC + 2 when its predicate
\* (value = 0, values equal, first value greater as unsigned words) holds and
\* to exactly PC + 1 otherwise, at every PC below the memory length, the top
\* of the 16-bit range included: no wrap-around, no crash.
C6_SkipAdvancesExactly ==
    [][\A function \in {"skip_if_zero", "skip_if_equal", "skip_if_greater"} :
          (ClockStepOf(function) /\ SkipOperandsResolve(hardware, function)) =>
              /\ last'.result = "ok"
              /\ hardware'.program_counter =
                     hardware.program_counter +
                         (IF SkipPredicate(hardware, function) THEN 2 ELSE 1)]_vars

ArithmeticOperandsResolve(hw) ==
    /\ IsLocation(hw, FieldA(Fetched(hw)))
    /\ IsLocation(hw, FieldB(Fetched(hw)))

\* C7: ADD a b with register or memory operands succeeds (saturation is no
\* failure), writes min(value-of(a) + value-of(b), 65535) into the location
\* of b, a and b naming the same location included, and leaves the location
\* of a unchanged when it differs from that of b.
C7_AddSaturates ==
    [][(ClockStepOf("add") /\ ArithmeticOperandsResolve(hardware)) =>
          LET a == FieldA(Fetched(hardware))
              b == FieldB(Fetched(hardware))
          IN /\ last'.result = "ok"
             /\ ReadAt(hardware', Location(hardware, b)) =
                    Min(ValueOf(hardware, a) + ValueOf(hardware, b), MaxWord)
             /\ Location(hardware, a) # Location(hardware, b) =>
                    ReadAt(hardware', Location(hardware, a)) = ValueOf(hardware, a)]_vars

\* An ADD of two different locations whose sum exceeds 65535 has stored 65535
\* in the second and kept the first, neither operand being 65535 before.
C7_WitnessSaturated ==
    /\ last = Call("clock", "ok", "add", 0)
    /\ MemRead(hardware.memory, hardware.program_counter - 1) = ADD(R(1), M(4))
    /\ hardware.registers[1] = 40000
    /\ MemRead(hardware.memory, hardware.registers[4]) = MaxWord
    /\ hardware.registers[2] = 40000

\* C8: SUBTRACT a b with register or memory operands succeeds (underflow is
\* no failure) and writes max(value-of(a) - value-of(b), 0), the first operand
\* minus the second, into the location of b.
C8_SubtractSaturates ==
    [][(ClockStepOf("subtract") /\ ArithmeticOperandsResolve(hardware)) =>
          LET a == FieldA(Fetched(hardware))
              b == FieldB(Fetched(hardware))
          IN /\ last'.result = "ok"
             /\ ReadAt(hardware', Location(hardware, b)) =
                    Max(ValueOf(hardware, a) - ValueOf(hardware, b), 0)]_vars

\* A SUBTRACT of a larger second operand from a smaller first one has stored
\* 0 in the second; another has stored a positive difference.
C8_WitnessUnderflow ==
    /\ last = Call("clock", "ok", "subtract", 0)
    /\ MemRead(hardware.memory, hardware.program_counter - 1) = SUBTRACT(M(3), R(2))
    /\ MemRead(hardware.memory, hardware.registers[3]) = 1
    /\ MemRead(hardware.memory, hardware.registers[4]) = 40000
    /\ hardware.registers[2] = 0

\* ------------------------------------------------------------------------
\* Properties of the assembler's encoding
\* ------------------------------------------------------------------------

\* The mnemonics that are instructions, each with its opcode template
\* (spec 4.5) and with the handler of the emulator that carries its name.
InstructionTemplate ==
    ("nop" :> 0) @@ ("syscall" :> 1) @@ ("return" :> 2) @@
    ("jump" :> 64) @@ ("skip_if_zero" :> 128) @@ ("subroutine" :> 192) @@
    ("copy" :> 4096) @@ ("add" :> 8192) @@ ("subtract" :> 12288) @@
    ("skip_if_equal" :> 16384) @@ ("skip_if_greater" :> 20480) @@ ("set" :> 24576)

HandlerOf(mnemonic) ==
    IF mnemonic = "return" THEN "return_subroutine" ELSE mnemonic

\* The 6-bit field of a legal address token: mode in bits 5..4, n in bits 3..0.
AddressField ==
    ("r0" :> 0) @@ ("r7" :> 7) @@ ("m3" :> 16 + 3) @@ ("rp1" :> 32 + 1) @@ ("rpm5" :> 48 + 5)

\* The constants of SET among the operand tokens.
SetConstant == ("7" :> 7) @@ ("511" :> 511)

\* A line of an instruction mnemonic was translated into a word.
InstructionAccepted ==
    /\ assembler.translated
    /\ assembler.result.ok
    /\ assembler.result.some
    /\ assembler.operation \in DOMAIN InstructionTemplate

\* The operand fields the encoder table of the spec puts below the template.
OperandBits(operation, operands) ==
    IF operation = "set"
    THEN 512 * AddressField[operands[1]] + SetConstant[operands[2]]
    ELSE IF Len(operands) = 0 THEN 0
    ELSE IF Len(operands) = 1 THEN AddressField[operands[1]]
    ELSE 64 * AddressField[operands[1]] + AddressField[operands[2]]

LegalOperands(operation, operands) ==
    IF operation = "set"
    THEN /\ Len(operands) = 2
         /\ operands[1] \in {"r0", "r7"}
         /\ operands[2] \in DOMAIN SetConstant
    ELSE \A i \in DOMAIN operands : operands[i] \in DOMAIN AddressField

\* C4: assembler/decoder round trip: for every accepted line of an
\* instruction mnemonic, get_function on the emitted word returns the
\* handler of that same mnemonic.
C4_RoundTrip ==
    InstructionAccepted =>
        get_function(assembler.result.word) = HandlerOf(assembler.operation)

\* C5: every accepted line of an instruction mnemonic is encoded as its
\* template (nop 0x0000, syscall 0x0001, return 0x0002, jump 0x0040,
\* skip_if_zero 0x0080, subroutine 0x00C0, copy 0x1000, add 0x2000,
\* subtract 0x3000, skip_if_equal 0x4000, skip_if_greater 0x5000, set 0x6000)
\* or-ed with its operand fields (a << 6 | b; for set n << 9 | k).
C5_EncoderTemplates ==
    (InstructionAccepted /\ LegalOperands(assembler.operation, assembler.operands)) =>
        assembler.result.word =
            InstructionTemplate[assembler.operation] +
                OperandBits(assembler.operation, assembler.operands)

\* ------------------------------------------------------------------------
\* Properties of RETURN on an empty stack and of operand resolution
\* ------------------------------------------------------------------------

\* C11: RETURN executed with an empty call stack sets the underflow flag,
\* fails the clock, leaves the CPU errored and does not change PC; with a
\* non-empty stack it succeeds, pops exactly one entry and does not touch the
\* underflow flag.
C11_ReturnUnderflow ==
    [][ClockStepOf("return_subroutine") =>
          IF Len(hardware.call_stack) = 0
          THEN /\ last'.result = "err"
               /\ hardware'.underflow_flag
               /\ hardware'.error_flag
               /\ hardware'.program_counter = hardware.program_counter
               /\ hardware'.call_stack = <<>>
          ELSE /\ last'.result = "ok"
               /\ Len(hardware'.call_stack) = Len(hardware.call_stack) - 1
               /\ hardware'.underflow_flag = hardware.underflow_flag
               /\ ~hardware'.error_flag]_vars

\* The last RETURN of StackProgram (at 3) found the stack empty.
C11_Witness ==
    /\ last = Call("clock", "err", "return_subroutine", 0)
    /\ hardware.call_stack = <<>>
    /\ hardware.underflow_flag
    /\ hardware.error_flag
    /\ hardware.program_counter = 3
    /\ Fetched(hardware) = RETURN

\* The handlers that read 6-bit operand fields, and the fields of a word
\* each of them reads.
SingleOperandHandlers == {"jump", "skip_if_zero", "subroutine"}

DoubleOperandHandlers == {"copy", "add", "subtract", "skip_if_equal", "skip_if_greater"}

OperandFields(function, word) ==
    IF function \in SingleOperandHandlers THEN {FieldB(word)}
    ELSE IF function \in DoubleOperandHandlers THEN {FieldA(word), FieldB(word)}
    ELSE {}

\* The address a dereferencing field computes: r[n] in mode M, r[n] + PC
\* in mode RPM (as an unbounded sum).
ComputedAddress(hw, field) ==
    IF FieldMode(field) = 1 THEN hw.registers[FieldRegister(field)]
    ELSE hw.registers[FieldRegister(field)] + hw.program_counter

DereferencesBeyond(hw, field) ==
    /\ FieldRegister(field) <= 7
    /\ FieldMode(field) \in {1, 3}
    /\ ComputedAddress(hw, field) >= hw.memory.len

\* C12: whenever an operand in mode M or RPM computes an address at or
\* beyond the memory length, the clock fails, the CPU is errored and the
\* memory is as before; a clock with PC at or beyond the memory length
\* fetches nothing; every address an operand field resolves to lies inside
\* the memory, and no cell at or beyond the memory length is written.
C12_MemorySafety ==
    /\ [][\A function \in SingleOperandHandlers \cup DoubleOperandHandlers :
             (ClockStepOf(function) /\
              \E field \in OperandFields(function, Fetched(hardware)) :
                  DereferencesBeyond(hardware, field)) =>
                 /\ last'.result = "err"
                 /\ hardware'.error_flag
                 /\ hardware'.memory = hardware.memory]_vars
    /\ [][(ClockStep /\ hardware.program_counter >= hardware.memory.len) =>
             /\ last'.result = "err"
             /\ last'.function = "none"]_vars
    /\ [](\A field \in 0..63 :
             LET true_address == get_true_address(hardware, field)
             IN (true_address.ok /\ true_address.kind = "Memory") =>
                    true_address.value < hardware.memory.len)
    /\ [](\A cell \in DOMAIN hardware.memory.cells : cell < hardware.memory.len)

\* A COPY into the cell r1 points to was refused: r1 holds an address beyond
\* the end of the small memory.
C12_Witness ==
    /\ last = Call("clock", "err", "copy", 0)
    /\ Fetched(hardware) = COPY(R(2), M(1))
    /\ hardware.registers[1] = 40000
    /\ hardware.registers[2] = 1
    /\ hardware.memory.len = MemSize
    /\ hardware.error_flag

\* What the spec makes of r[n] + PC in mode RPM: a failure when the sum
\* exceeds 65535 or lies beyond the memory, the cell at the sum otherwise.
RPMFails(hw, n) ==
    \/ hw.registers[n] + hw.program_counter > MaxWord
    \/ hw.registers[n] + hw.program_counter >= hw.memory.len

\* C13: in every state and for every register, mode RP resolves, without
\* failing, to the value min(r[n] + PC, 65535); mode RPM fails when
\* r[n] + PC exceeds 65535 or lies beyond the memory and resolves to the cell
\* r[n] + PC otherwise.  A JUMP shows both: with an RP operand it succeeds
\* and sets PC to the saturated sum, with an RPM operand it fails in the
\* failing cases and sets PC to Memory[r[n] + PC] otherwise.
C13_RegisterPlusPC ==
    /\ [](\A n \in RegisterIndexes :
             LET sum == hardware.registers[n] + hardware.program_counter
                 rp == get_true_address(hardware, RP(n))
                 rpm == get_true_address(hardware, RPM(n))
             IN /\ rp = AddressOk("RegisterPlusPC", Min(sum, MaxWord))
                /\ IF RPMFails(hardware, n) THEN ~rpm.ok
                   ELSE rpm = AddressOk("Memory", sum))
    /\ [][ClockStepOf("jump") =>
             LET field == FieldB(Fetched(hardware))
                 n == FieldRegister(field)
             IN /\ (FieldMode(field) = 2 /\ n <= 7) =>
                       /\ last'.result = "ok"
                       /\ hardware'.program_counter =
                              Min(hardware.registers[n] + hardware.program_counter, MaxWord)
                /\ (FieldMode(field) = 3 /\ n <= 7) =>
                       IF RPMFails(hardware, n)
                       THEN last'.result = "err" /\ hardware'.error_flag
                       ELSE /\ last'.result = "ok"
                            /\ hardware'.program_counter =
                                   MemRead(hardware.memory,
                                           hardware.registers[n] + hardware.program_counter)]_vars

\* A JUMP through the cell at r1 + PC was refused at the top of the memory:
\* 40000 + 65534 exceeds 65535.
C13_Witness ==
    /\ last = Call("clock", "err", "jump", 0)
    /\ Fetched(hardware) = JUMP(RPM(1))
    /\ hardware.registers[1] = 40000
    /\ hardware.program_counter = MaxWord - 1
    /\ hardware.error_flag

\* C14: SKIP_IF_ZERO, SKIP_IF_EQUAL, SKIP_IF_GREATER, ADD, SUBTRACT and COPY
\* with an operand in mode RP, in whichever position, fail the clock and
\* leave the CPU errored with registers, memory and PC as they were; JUMP
\* and SUBROUTINE (on a stack that is not full) accept an RP operand.
C14_RegisterPlusPCOnlyForJumps ==
    /\ [][\A function \in {"skip_if_zero"} \cup DoubleOperandHandlers :
             (ClockStepOf(function) /\
              \E field \in OperandFields(function, Fetched(hardware)) : FieldMode(field) = 2) =>
                 /\ last'.result = "err"
                 /\ hardware'.error_flag
                 /\ hardware'.registers = hardware.registers
                 /\ hardware'.memory = hardware.memory
                 /\ hardware'.program_counter = hardware.program_counter]_vars
    /\ [][\A function \in {"jump", "subroutine"} :
             (/\ ClockStepOf(function)
              /\ FieldMode(FieldB(Fetched(hardware))) = 2
              /\ FieldRegister(FieldB(Fetched(hardware))) <= 7
              /\ Len(hardware.call_stack) < CallStackSize) =>
                 /\ last'.result = "ok"
                 /\ hardware'.program_counter =
                        ValueOf(hardware, FieldB(Fetched(hardware)))]_vars

\* A COPY whose destination is in mode RP was refused.
C14_Witness ==
    /\ last = Call("clock", "err", "copy", 0)
    /\ Fetched(hardware) = COPY(R(2), RP(1))
    /\ hardware.registers[1] = 1
    /\ hardware.registers[2] = 1
    /\ hardware.error_flag

\* C15: for every instruction with 6-bit operand fields, a field whose low
\* four bits are above 7 makes the clock fail, whatever its mode bits, and
\* leaves the CPU errored with its registers as they were; the register file
\* is r0..r7 and no field resolves to a register outside it.
C15_IllegalRegister ==
    /\ [][\A function \in SingleOperandHandlers \cup DoubleOperandHandlers :
             (ClockStepOf(function) /\
              \E field \in OperandFields(function, Fetched(hardware)) :
                  FieldRegister(field) > 7) =>
                 /\ last'.result = "err"
                 /\ hardware'.error_flag
                 /\ hardware'.registers = hardware.registers]_vars
    /\ [](DOMAIN hardware.registers = 0..7)
    /\ [](\A field \in 0..63 :
             LET true_address == get_true_address(hardware, field)
             IN /\ FieldRegister(field) > 7 => ~true_address.ok
                /\ (true_address.ok /\ true_address.kind = "Register") =>
                       true_address.value \in 0..7)

\* An ADD whose second operand names register 9 in memory mode was refused.
C15_Witness ==
    /\ last = Call("clock", "err", "add", 0)
    /\ Fetched(hardware) = ADD(R(2), M(9))
    /\ hardware.registers[2] = 1
    /\ hardware.error_flag

\* ------------------------------------------------------------------------
\* Decoding
\* ------------------------------------------------------------------------

\* The shape of a word and its key, as spec 4.1 gives them: no-operand when
\* the top 10 bits are zero, single-operand when the top 4 bits are zero.
ShapeOf(word) ==
    IF word \div 64 = 0 THEN "no-operand"
    ELSE IF word \div 4096 = 0 THEN "single-operand"
    ELSE "double-operand"

KeyOf(word) ==
    CASE ShapeOf(word) = "no-operand" -> word % 64
      [] ShapeOf(word) = "single-operand" -> (word % 4096) - (word % 64)
      [] ShapeOf(word) = "double-operand" -> word - (word % 4096)

\* The handler of a word whose key is one of the 12 opcodes, else "none".
DecodedHandler(word) ==
    IF \E mnemonic \in DOMAIN InstructionTemplate : InstructionTemplate[mnemonic] = KeyOf(word)
    THEN HandlerOf(CHOOSE mnemonic \in DOMAIN InstructionTemplate :
                       InstructionTemplate[mnemonic] = KeyOf(word))
    ELSE "none"

\* C16: a clock that fetches a word calls the handler of the word's
\* shape-masked key, whatever the operand bits are, and fails with no
\* handler called and the hardware untouched when the key is not one of
\* the 12 opcodes; get_function gives every 16-bit word one of the two.
C16_DecodingTotal ==
    [][(ClockStep /\ ~hardware.error_flag /\ hardware.program_counter < hardware.memory.len) =>
          LET executer_function == get_function(Fetched(hardware))
              handler == DecodedHandler(Fetched(hardware))
          IN /\ last'.function = handler
             /\ handler # "none" => executer_function = handler
             /\ handler = "none" =>
                    /\ executer_function = "unknown"
                    /\ last'.result = "err"
                    /\ hardware' = hardware]_vars

\* A SUBTRACT with all twelve operand bits set was decoded as subtract.
C16_Witness ==
    /\ last.call = "clock"
    /\ last.function = "subtract"
    /\ hardware.program_counter = 0
    /\ Fetched(hardware) = SUBTRACT(63, 63)

\* A word with the unused double-operand key 0xF000 was refused.
C16_WitnessIllegal ==
    /\ last = Call("clock", "err", "none", 0)
    /\ hardware.program_counter = 0
    /\ Fetched(hardware) = IllegalWord

\* ------------------------------------------------------------------------
\* The syscall bridge
\* ------------------------------------------------------------------------

\* The next clock fetches a SYSCALL.
FetchesSyscall(hw) ==
    /\ ~hw.error_flag
    /\ hw.program_counter < hw.memory.len
    /\ Fetched(hw) = SYSCALL

\* The hardware after a SYSCALL whose callback wrote value into register
\* index of the projection and left its error flag clear.
AfterCallback(hw, index, value) ==
    [hw EXCEPT !.registers = [hw.registers EXCEPT ![index] = value],
               !.program_counter = hw.program_counter + 1]

\* C17: a SYSCALL clock that succeeds leaves the eight registers as the
\* callback left the projection (the registers before the clock, with what
\* the callback wrote), PC + 1, and the memory, the call stack and the flags
\* as they were; with a live callback every such outcome is one of the clock.
C17_SyscallCopiesProjection ==
    /\ [][(ClockStepOf("syscall") /\ last'.result = "ok") =>
             /\ hardware.sys_callback = "Live"
             /\ \E index \in CallbackRegisters, value \in CallbackValues :
                    hardware' = AfterCallback(hardware, index, value)
             /\ hardware'.program_counter = hardware.program_counter + 1
             /\ hardware'.memory = hardware.memory
             /\ hardware'.call_stack = hardware.call_stack]_vars
    /\ []((FetchesSyscall(hardware) /\ hardware.sys_callback = "Live") =>
             \A index \in CallbackRegisters, value \in CallbackValues :
                 \E o \in clock(hardware) :
                     o.result = "ok" /\ o.hw = AfterCallback(hardware, index, value))

\* The callback wrote 12 into r3 during the first SYSCALL of the program.
C17_Witness ==
    /\ last = Call("clock", "ok", "syscall", 0)
    /\ hardware.registers[3] = 12
    /\ hardware.program_counter = 1
    /\ ~hardware.error_flag

\* C18: a SYSCALL whose live callback left the projection's error flag set
\* fails the clock with the CPU errored and PC where it was; PC becomes
\* PC + 1 only when the callback left the flag clear.
C18_PCAdvancesOnlyOnSuccess ==
    [][(ClockStepOf("syscall") /\ hardware.sys_callback = "Live") =>
          /\ last'.result = "err" =>
                 /\ hardware'.error_flag
                 /\ hardware'.program_counter = hardware.program_counter
          /\ last'.result = "ok" =>
                 /\ ~hardware'.error_flag
                 /\ hardware'.program_counter = hardware.program_counter + 1]_vars

\* The part of C18 the code keeps: the callback's error flag fails the clock
\* and marks the CPU errored.
C18_CallbackErrorFails ==
    [][(ClockStepOf("syscall") /\ hardware.sys_callback = "Live" /\ last'.result = "err") =>
          hardware'.error_flag]_vars

\* A SYSCALL failed by its callback, with PC past the instruction.
C18_FailedAndAdvanced ==
    /\ last = Call("clock", "err", "syscall", 0)
    /\ hardware.sys_callback = "Live"
    /\ hardware.error_flag
    /\ hardware.program_counter = 1
    /\ MemRead(hardware.memory, 0) = SYSCALL

\* C19: a SYSCALL clocked with no callback registered, or with the owner of
\* the callback dropped, returns an error (it does not panic), leaves the
\* CPU errored, and leaves registers, PC, memory and call stack as they were;
\* it is the only outcome of such a clock.
C19_SyscallWithoutCallback ==
    /\ [][(ClockStepOf("syscall") /\ hardware.sys_callback \in {"None", "Dropped"}) =>
             /\ last'.result = "err"
             /\ hardware' = [hardware EXCEPT !.error_flag = TRUE]]_vars
    /\ []((FetchesSyscall(hardware) /\ hardware.sys_callback \in {"None", "Dropped"}) =>
             clock(hardware) = { [hw |-> [hardware EXCEPT !.error_flag = TRUE],
                                  result |-> "err", function |-> "syscall"] })

\* A SYSCALL was refused after the owner of its callback was dropped.
C19_Witness ==
    /\ last = Call("clock", "err", "syscall", 0)
    /\ hardware.sys_callback = "Dropped"
    /\ hardware.error_flag
    /\ hardware.program_counter = 0

\* A SYSCALL was refused on a machine that never had a callback.
C19_WitnessNone ==
    /\ last = Call("clock", "err", "syscall", 0)
    /\ hardware.sys_callback = "None"
    /\ hardware.error_flag
    /\ hardware.program_counter = 0

\* ------------------------------------------------------------------------
\* The overflow flag
\* ------------------------------------------------------------------------

\* C20: after the clock of an ADD whose sum value-of(a) + value-of(b) exceeds
\* 65535, and after the clock of a SUBROUTINE refused for a full call stack,
\* the overflow flag is set.
C20_OverflowFlagSet ==
    /\ [][(ClockStepOf("add") /\ ArithmeticOperandsResolve(hardware) /\
           ValueOf(hardware, FieldA(Fetched(hardware))) +
               ValueOf(hardware, FieldB(Fetched(hardware))) > MaxWord) =>
              hardware'.overflow_flag]_vars
    /\ [][(ClockStepOf("subroutine") /\ Len(hardware.call_stack) >= CallStackSize) =>
              hardware'.overflow_flag]_vars

\* The part of C20 the code keeps: a SUBROUTINE refused for a full call
\* stack fails with the overflow flag set.
C20_RefusedSubroutineSetsFlag ==
    [][(ClockStepOf("subroutine") /\ Len(hardware.call_stack) >= CallStackSize) =>
          last'.result = "err" /\ hardware'.overflow_flag]_vars

\* An ADD has saturated and the overflow flag is clear.
C20_SaturatedWithoutFlag ==
    /\ last = Call("clock", "ok", "add", 0)
    /\ MemRead(hardware.memory, hardware.program_counter - 1) = ADD(R(1), R(2))
    /\ hardware.registers[1] = 40000
    /\ hardware.registers[2] = MaxWord
    /\ ~hardware.overflow_flag

\* ------------------------------------------------------------------------
\* COPY, JUMP and SET
\* ------------------------------------------------------------------------

\* C21: a COPY succeeds exactly when both operands name a register or a
\* memory cell (modes R, M, RPM); after it the location of the destination
\* holds what the location of the source held before, the source location
\* keeps its value when it is another location, and PC is PC + 1.
C21_CopyMovesValue ==
    /\ [][(ClockStepOf("copy") /\ ArithmeticOperandsResolve(hardware)) =>
             LET source == FieldA(Fetched(hardware))
                 destination == FieldB(Fetched(hardware))
             IN /\ last'.result = "ok"
                /\ ReadAt(hardware', Location(hardware, destination)) =
                       ValueOf(hardware, source)
                /\ Location(hardware, source) # Location(hardware, destination) =>
                       ReadAt(hardware', Location(hardware, source)) = ValueOf(hardware, source)
                /\ hardware'.program_counter = hardware.program_counter + 1]_vars
    /\ [][(ClockStepOf("copy") /\ last'.result = "ok") =>
             ArithmeticOperandsResolve(hardware)]_vars

\* A COPY from a memory cell to a register has moved 40000 into r2.
C21_Witness ==
    /\ last = Call("clock", "ok", "copy", 0)
    /\ MemRead(hardware.memory, hardware.program_counter - 1) = COPY(M(3), R(2))
    /\ hardware.program_counter = MemSize
    /\ MemRead(hardware.memory, 9) = 1
    /\ MemRead(hardware.memory, hardware.registers[3]) = 40000
    /\ hardware.registers[2] = 40000

\* The operand of a JUMP can be evaluated: a register r0..r7, and in the two
\* memory modes an address inside the memory.
JumpOperandResolves(hw) ==
    LET field == FieldB(Fetched(hw))
    IN /\ FieldRegister(field) <= 7
       /\ FieldMode(field) = 1 => hw.registers[FieldRegister(field)] < hw.memory.len
       /\ FieldMode(field) = 3 =>
              hw.registers[FieldRegister(field)] + hw.program_counter < hw.memory.len

\* C22: a JUMP whose operand can be evaluated succeeds and sets PC to
\* value-of(addr) in each of the four modes, changing nothing else, whether
\* or not the target is inside the memory; a clock with PC at or beyond the
\* memory length fails and changes nothing.
C22_JumpSetsPC ==
    /\ [][(ClockStepOf("jump") /\ JumpOperandResolves(hardware)) =>
             /\ last'.result = "ok"
             /\ hardware' = [hardware EXCEPT
                               !.program_counter = ValueOf(hardware, FieldB(Fetched(hardware)))]]_vars
    /\ [][(ClockStep /\ hardware.program_counter >= hardware.memory.len) =>
             /\ last'.result = "err"
             /\ last'.function = "none"
             /\ hardware'.program_counter = hardware.program_counter
             /\ hardware'.memory = hardware.memory
             /\ hardware'.registers = hardware.registers]_vars

\* A JUMP has put PC at 40000 in a memory of MemSize words.
C22_Witness ==
    /\ last = Call("clock", "ok", "jump", 0)
    /\ hardware.memory.len = MemSize
    /\ hardware.program_counter = 40000
    /\ MemRead(hardware.memory, MemSize - 1) = JUMP(R(1))

\* The clock after such a JUMP has failed.
C22_WitnessNextClockFails ==
    /\ last = Call("clock", "err", "none", 0)
    /\ hardware.memory.len = MemSize
    /\ hardware.program_counter = 40000
    /\ MemRead(hardware.memory, MemSize - 1) = JUMP(R(1))

\* A JUMP has taken its target from the memory cell at r1 + PC: the cell is
\* the one holding the JUMP itself.
C22_WitnessRPM ==
    /\ last = Call("clock", "ok", "jump", 0)
    /\ hardware.registers[1] = 0
    /\ hardware.program_counter = JUMP(RPM(1))
    /\ MemRead(hardware.memory, MemSize - 1) = JUMP(RPM(1))

\* A JUMP has taken the saturated sum r1 + PC as its target.
C22_WitnessRP ==
    /\ last = Call("clock", "ok", "jump", 0)
    /\ hardware.registers[1] = MaxWord
    /\ hardware.program_counter = MaxWord
    /\ MemRead(hardware.memory, MemSize - 1) = JUMP(RP(1))

\* ------------------------------------------------------------------------
\* The host API: load and increase_memory
\* ------------------------------------------------------------------------

\* The addresses load(data, start) writes.
LoadedRange(data, start) == { start + i - 1 : i \in 1..Len(data) }

\* C23: load(data, start) fails and changes nothing when start + len(data)
\* exceeds the memory length; otherwise it succeeds, memory[start + i] is
\* data[i] for every i, every other cell and the length are as before, and
\* PC, registers, call stack and flags are unchanged.  Every load step is
\* one of these.
C23_LoadFrame ==
    /\ [](\A data \in LoadData, start \in LoadStarts :
             LET o == load(hardware, data, start)
             IN IF start + Len(data) > hardware.memory.len
                THEN o.result = "err" /\ o.hw = hardware
                ELSE /\ o.result = "ok"
                     /\ \A i \in 1..Len(data) :
                            MemRead(o.hw.memory, start + i - 1) = data[i]
                     /\ \A a \in (DOMAIN hardware.memory.cells \cup DOMAIN o.hw.memory.cells)
                                     \ LoadedRange(data, start) :
                            MemRead(o.hw.memory, a) = MemRead(hardware.memory, a)
                     /\ o.hw.memory.len = hardware.memory.len
                     /\ [o.hw EXCEPT !.memory = hardware.memory] = hardware)
    /\ [][last'.call = "load" =>
             \E data \in LoadData, start \in LoadStarts :
                 /\ hardware' = load(hardware, data, start).hw
                 /\ last'.result = load(hardware, data, start).result
                 /\ last'.result = "err" => hardware' = hardware]_vars

\* Two words were loaded into the last two cells of a small memory after the
\* machine had run.
C23_Witness ==
    /\ last = Call("load", "ok", "none", 0)
    /\ hardware.memory.len = MemSize
    /\ MemRead(hardware.memory, MemSize - 2) = 7
    /\ MemRead(hardware.memory, MemSize - 1) = 9
    /\ hardware.program_counter > 0

\* A load of two words at the last cell of a small memory was refused.
C23_WitnessRefused ==
    /\ last = Call("load", "err", "none", 0)
    /\ hardware.memory.len = MemSize
    /\ MemRead(hardware.memory, MemSize - 1) = 0

\* C24: increase_memory(delta) on a memory of length N succeeds with
\* Ok(N + delta) when delta >= 1 and N + delta <= 65536, the memory then
\* having N + delta cells, the first N as before and the new ones zero;
\* it fails with the memory untouched when delta = 0 or N + delta > 65536.
C24_IncreaseMemory ==
    \A delta \in Additionals :
        LET o == increase_memory(hardware, delta)
            N == hardware.memory.len
        IN IF delta >= 1 /\ N + delta <= WordModulus
           THEN /\ o.result = "ok"
                /\ o.value = N + delta
                /\ o.hw.memory.len = N + delta
                /\ o.hw.memory.cells = hardware.memory.cells
                /\ [o.hw EXCEPT !.memory = hardware.memory] = hardware
           ELSE o.result = "err" /\ o.hw = hardware

\* The same with the limit the code enforces, N + delta <= 65535.
C24_IncreaseMemoryBelowLimit ==
    \A delta \in Additionals :
        LET o == increase_memory(hardware, delta)
            N == hardware.memory.len
        IN IF delta >= 1 /\ N + delta <= MaxWord
           THEN /\ o.result = "ok"
                /\ o.value = N + delta
                /\ o.hw.memory.len = N + delta
                /\ o.hw.memory.cells = hardware.memory.cells
                /\ [o.hw EXCEPT !.memory = hardware.memory] = hardware
           ELSE o.result = "err" /\ o.hw = hardware

\* increase_memory(1) was refused on a memory of 65535 words.
C24_RefusedAtLimit ==
    /\ last = Call("increase_memory", "err", "none", 0)
    /\ hardware.memory.len = MaxWord

\* ------------------------------------------------------------------------
\* The binary file
\* ------------------------------------------------------------------------

RECURSIVE AssembledFrom(_, _)
\* The words of a source: one per line that translates to a word.
AssembledFrom(lines, line_num) ==
    IF line_num > Len(lines) THEN <<>>
    ELSE LET translated == translate_line(lines[line_num])
         IN (IF translated.ok /\ translated.some THEN <<translated.word>> ELSE <<>>)
            \o AssembledFrom(lines, line_num + 1)

AssembledWords(lines) == AssembledFrom(lines, 1)

\* Every line of the source translates.
Assembles(lines) == \A i \in 1..Len(lines) : translate_line(lines[i]).ok

\* A step of load_from_file: the call is the last one and the files are as
\* they were.
LoadFromFileStep == last'.call = "load_from_file" /\ file' = file

\* The binary file is the whole output of the assembler for its source.
WholeBinary(binary) ==
    /\ binary.status = "compiled"
    /\ Len(binary.bytes) = 2 * Len(AssembledWords(binary.source))

\* C25: the CLI writes two bytes per assembled word, high byte first, and
\* load_from_file of the whole file at start puts the assembled words, in
\* order, at memory[start..] and changes nothing else (when they fit); a
\* file with an odd number of bytes is refused and the hardware is unchanged.
C25_ByteOrderRoundTrip ==
    /\ [][(file' # file /\ file'.source # file.source /\ Assembles(file'.source)) =>
             LET words == AssembledWords(file'.source)
             IN /\ file'.status = "compiled"
                /\ Len(file'.bytes) = 2 * Len(words)
                /\ \A i \in 1..Len(words) :
                       /\ file'.bytes[2 * i - 1] = words[i] \div 256
                       /\ file'.bytes[2 * i] = words[i] % 256]_vars
    /\ [][(LoadFromFileStep /\ WholeBinary(file)) =>
             LET words == AssembledWords(file.source)
                 start == last'.value
             IN IF start + Len(words) <= hardware.memory.len
                THEN /\ last'.result = "ok"
                     /\ \A i \in 1..Len(words) :
                            MemRead(hardware'.memory, start + i - 1) = words[i]
                     /\ \A a \in (DOMAIN hardware.memory.cells \cup
                                  DOMAIN hardware'.memory.cells) \ LoadedRange(words, start) :
                            MemRead(hardware'.memory, a) = MemRead(hardware.memory, a)
                     /\ [hardware' EXCEPT !.memory = hardware.memory] = hardware
                ELSE last'.result = "err" /\ hardware' = hardware]_vars
    /\ [][(LoadFromFileStep /\ Len(file.bytes) % 2 = 1) =>
             last'.result = "err" /\ hardware' = hardware]_vars

\* The three data words 65535, 256, 255 were assembled, written and loaded
\* at address 0.
C25_Witness ==
    /\ last = Call("load_from_file", "ok", "none", 0)
    /\ file.source = << "data 65535", "data 256", "data 255" >>
    /\ file.bytes = << 255, 255, 1, 0, 0, 255 >>
    /\ MemRead(hardware.memory, 0) = MaxWord
    /\ MemRead(hardware.memory, 1) = 256
    /\ MemRead(hardware.memory, 2) = 255

\* A file of three bytes was refused.
C25_WitnessOdd ==
    /\ last = Call("load_from_file", "err", "none", 0)
    /\ Len(file.bytes) = 3

\* ------------------------------------------------------------------------
\* The assembler's reading of a line
\* ------------------------------------------------------------------------

\* C26: a line written in upper case, with extra spaces before, between and
\* after its tokens, or followed by a comment token, translates to what the
\* same tokens written plainly translate to (the same word, or an error for
\* both); a blank line and a line whose first non-blank character is ';'
\* translate to None.
C26_WritingInsensitive ==
    /\ (assembler.translated /\ assembler.operation # "") =>
           assembler.result =
               translate_line(WriteLine(assembler.operation, assembler.operands, "plain"))
    /\ (assembler.translated /\ assembler.operation = "") =>
           /\ assembler.line \in BlankLines
           /\ assembler.result = TranslateNone

\* An ADD written in upper case was translated to the word of ADD R0 M3.
C26_Witness ==
    /\ assembler.translated
    /\ assembler.line = "ADD R0 M3"
    /\ assembler.result = TranslateOk(ADD(R(0), M(3)))

\* The same with extra spaces, and with a comment behind it.
C26_WitnessSpaced ==
    /\ assembler.translated
    /\ assembler.line = "  add   r0   m3 "
    /\ assembler.result = TranslateOk(ADD(R(0), M(3)))

C26_WitnessCommented ==
    /\ assembler.translated
    /\ assembler.line = "add r0 m3 ;r9 r9"
    /\ assembler.result = TranslateOk(ADD(R(0), M(3)))

\* A comment line was translated to None.
C26_WitnessBlank ==
    /\ assembler.translated
    /\ assembler.line = "  ;comment"
    /\ assembler.result = TranslateNone

RECURSIVE PlainIntegerFrom(_, _)
\* The value of a string of decimal digits, -1 when a character is no digit.
PlainIntegerFrom(str, value) ==
    IF str = "" THEN value
    ELSE LET i == IndexIn(Head(str), Digits, 1)
         IN IF i = 0 THEN -1
            ELSE PlainIntegerFrom(Tail(str), Min(value * 10 + (i - 1), MaxWord))

PlainInteger(str) == IF str = "" THEN -1 ELSE PlainIntegerFrom(str, 0)

\* The 6-bit field of an address token as spec 5.2 reads it: one of the
\* prefixes rpm, rp, m, r (the longest that matches) followed by an unsigned
\* integer in 0..7; -1 for every other token.
AddressFieldOf(token) ==
    LET prefix == IF starts_with(token, "rpm") THEN "rpm"
                  ELSE IF starts_with(token, "rp") THEN "rp"
                  ELSE IF starts_with(token, "m") THEN "m"
                  ELSE IF starts_with(token, "r") THEN "r"
                  ELSE ""
        n == PlainInteger(SubSeq(token, Len(prefix) + 1, Len(token)))
    IN IF prefix = "" \/ n < 0 \/ n > 7 THEN -1
       ELSE n + (CASE prefix = "rpm" -> 48 [] prefix = "rp" -> 32
                   [] prefix = "m" -> 16 [] prefix = "r" -> 0)

\* C27: a JUMP whose operand token is a prefix rpm, rp, m or r followed by
\* an unsigned integer in 0..7 translates to the word with that field; with
\* any other operand token the line is an error.
C27_AddressTokens ==
    (assembler.translated /\ assembler.operation = "jump" /\ Len(assembler.operands) = 1) =>
        LET field == AddressFieldOf(assembler.operands[1])
        IN IF field >= 0 THEN assembler.result = TranslateOk(JUMP(field))
           ELSE assembler.result = TranslateErr

\* The part of C27 the code keeps: every token of the form prefix, integer
\* in 0..7 is accepted with its field, and a token with no prefix or with a
\* number above 7 is refused.
C27_LegalTokensAccepted ==
    (assembler.translated /\ assembler.operation = "jump" /\ Len(assembler.operands) = 1) =>
        LET field == AddressFieldOf(assembler.operands[1])
        IN /\ field >= 0 => assembler.result = TranslateOk(JUMP(field))
           /\ assembler.result.ok => \E mode \in {0, 16, 32, 48}, n \in 0..7 :
                                         assembler.result = TranslateOk(JUMP(mode + n))

\* "jump rr7" was translated to the word of JUMP R7.
C27_RepeatedPrefixAccepted ==
    /\ assembler.translated
    /\ assembler.line = "jump rr7"
    /\ assembler.result = TranslateOk(JUMP(R(7)))

\* "jump m+7" was translated to the word of JUMP M7.
C27_SignAccepted ==
    /\ assembler.translated
    /\ assembler.line = "jump m+7"
    /\ assembler.result = TranslateOk(JUMP(M(7)))

\* The register a SET destination token names, -1 unless the token is the
\* prefix r followed by an integer in 0..7.
SetRegisterOf(token) ==
    IF AddressFieldOf(token) \in 0..7 THEN AddressFieldOf(token) ELSE -1

\* The constant a SET constant token names, -1 unless it is an unsigned
\* integer in 0..511.
SetConstantOf(token) ==
    IF PlainInteger(token) \in 0..511 THEN PlainInteger(token) ELSE -1

C28_WitnessOtherMode ==
    /\ assembler.translated
    /\ assembler.line = "SET rp1 1"
    /\ assembler.result = TranslateErr

C28_WitnessTooLarge ==
    /\ assembler.translated
    /\ assembler.line = "SET r0 512"
    /\ assembler.result = TranslateErr

\* The number of arguments of each mnemonic (spec 5.1 and 5.3).
Arity ==
    [ mnemonic \in operations_map |->
        IF mnemonic \in {"nop", "return", "syscall"} THEN 0
        ELSE IF mnemonic \in {"data", "jump", "skip_if_zero", "subroutine"} THEN 1
        ELSE 2 ]

C29_WitnessUnknown ==
    /\ assembler.translated
    /\ assembler.line = "halt"
    /\ assembler.result = TranslateErr

\* An ADD with three arguments was refused.
C29_WitnessThree ==
    /\ assembler.translated
    /\ assembler.line = "add r0 r7 m3"
    /\ assembler.result = TranslateErr

\* A RETURN followed by a comment was translated to its word.
C29_WitnessOneWord ==
    /\ assembler.translated
    /\ assembler.line = "return ;r9 r9"
    /\ assembler.result = TranslateOk(RETURN)


\* ------------------------------------------------------------------------
\* C30: the scheduling of the arena
\* ------------------------------------------------------------------------

\* The names of a list of machines, in list order.
NamesOf(machines) == [ i \in 1..Len(machines) |-> machines[i].name ]

\* The machines of a list whose clock has not returned an error, in list order.
Survivors(machines, failed) ==
    LET Alive(machine) == machine.name \notin failed
    IN SelectSeq(machines, Alive)

\* A step that ends a tick, and a step in which the clock of a machine returns.
EndOfTickStep == arena.status = "running" /\ arena.index = Len(arena.machines) /\ arena' # arena

ClockReturnsStep == arena'.index = arena.index + 1

\* Within a tick the machines clocked so far are the first machines of the
\* active list, each once and in list order, and a tick ends only when all
\* of the list have been clocked.
C30_OncePerTickInOrder ==
    /\ [](arena.status # "absent" =>
            /\ arena.clocked = SubSeq(NamesOf(arena.machines), 1, arena.index)
            /\ \A i, j \in 1..Len(arena.machines) :
                   arena.machines[i].name = arena.machines[j].name => i = j)
    /\ [][EndOfTickStep => arena.clocked = NamesOf(arena.machines)]_vars

\* The machines whose clock returned an error in a tick are removed at the
\* end of that tick, the others stay as they are and in their order, and no
\* machine is clocked after a clock of it returned an error.
C30_FailedRemovedOrderKept ==
    /\ [][EndOfTickStep => arena'.machines = Survivors(arena.machines, arena.failed)]_vars
    /\ [][ClockReturnsStep => arena.machines[arena.index + 1].name \notin arena.failed]_vars
    /\ [](arena.index = 0 => \A i \in 1..Len(arena.machines) :
                                 arena.machines[i].name \notin arena.failed)

\* The main loop does not stop inside a tick, with machines of the active
\* list not clocked in it.
C30_TickCompleted ==
    ~(arena.status \in {"panicked", "deadlocked"} /\ arena.index < Len(arena.machines))

\* C30: in every tick each machine of the active list is clocked exactly
\* once, in list order; a machine whose clock returns an error is removed at
\* the end of that tick and never clocked again, and the surviving machines
\* keep their relative order.
C30_ArenaScheduling ==
    /\ C30_OncePerTickInOrder
    /\ C30_FailedRemovedOrderKept
    /\ []C30_TickCompleted

\* What holds of the ticks the loop completes.
C30_CompletedTicks == C30_OncePerTickInOrder /\ C30_FailedRemovedOrderKept

\* The second of three machines failed in the first tick, and the first and
\* the third have been clocked in the second tick, in that order.
C30_WitnessMiddleRemoved ==
    /\ arena.status = "running"
    /\ arena.failed = {2}
    /\ NamesOf(arena.machines) = <<1, 3>>
    /\ arena.clocked = <<1, 3>>

\* Two machines failed in one tick and the third went on alone.
C30_WitnessTwoRemoved ==
    /\ arena.status = "finished"
    /\ arena.failed = {1, 2}
    /\ NamesOf(arena.machines) = <<3>>

\* The first machine of the list fetched SYSCALL in the second tick and the
\* loop stopped there, the machines behind it not clocked in that tick.
C30_WitnessStoppedInsideTick ==
    /\ arena.status \in {"panicked", "deadlocked"}
    /\ arena.index = 0
    /\ Len(arena.machines) = 3
    /\ arena.failed = {}


\* ------------------------------------------------------------------------
\* C31: the outcome of the arena
\* ------------------------------------------------------------------------

C31_WitnessNoWinner ==
    /\ arena.status = "finished"
    /\ arena.winner = <<>>
    /\ arena.failed = {1, 2, 3}

\* The loop went on after a tick that left two machines.
C31_WitnessWentOn ==
    /\ arena.status = "running"
    /\ arena.failed = {2}
    /\ Len(arena.machines) = 2


\* ------------------------------------------------------------------------
\* C32: the order of the emulator clock and the credit in Machine::clock
\* ------------------------------------------------------------------------

\* The machine the for loop of start is at, as the emulator sees it during
\* the clock, and the emulator as the loop finds it after the clock.
MachineAtIndex == arena.machines[arena.index + 1]

EmulatorUnderLock == [MachineAtIndex.emulator EXCEPT !.sys_callback = "Held"]

ReturnedError == arena'.bots_to_remove # arena.bots_to_remove

\* C32: Machine::clock clocks the emulator first; when that clock fails the
\* credit is not touched and the error is returned; when it succeeds the
\* instruction has been executed, the credit is one less, and an error is
\* returned exactly when the credit has reached zero.
C32_CreditAfterClock ==
    [][ClockReturnsStep =>
        \E o \in clock(EmulatorUnderLock) :
          LET after == arena'.machines[arena.index + 1]
          IN /\ o.result \in {"ok", "err"}
             /\ after.emulator = [o.hw EXCEPT !.sys_callback = "Live"]
             /\ after.name = MachineAtIndex.name
             /\ o.result = "err" => after.credit = MachineAtIndex.credit /\ ReturnedError
             /\ o.result = "ok" =>
                   /\ after.credit = (MachineAtIndex.credit - 1) % WordModulus
                   /\ ReturnedError <=> after.credit = 0]_vars

\* A machine started with a credit of 3 has executed SET, SET and ADD, and
\* the clock of the ADD returned the error of the credit.
C32_Witness ==
    \E i \in 1..Len(arena.machines) :
        /\ arena.machines[i].credit = 0
        /\ arena.machines[i].emulator.program_counter = 3
        /\ arena.machines[i].emulator.registers[2] = 260
        /\ ~arena.machines[i].emulator.error_flag
        /\ arena.machines[i].name \in arena.failed

\* The emulator clock of a machine failed on an unknown word and the credit
\* of the machine is the one it started with.
C32_WitnessNoCreditUsed ==
    \E i \in 1..Len(arena.machines) :
        /\ arena.machines[i].credit = 3
        /\ arena.machines[i].emulator.program_counter = 0
        /\ arena.machines[i].name \in arena.failed


\* ------------------------------------------------------------------------
\* C33: what a successful instruction changes
\* ------------------------------------------------------------------------

\* The location a COPY, ADD or SUBTRACT (second operand) or a SET (register
\* field in bits 11..9) writes.
DestinationOf(hw) ==
    IF Fetched(hw) \div 4096 = 6
    THEN <<"register", (Fetched(hw) \div 512) % 8>>
    ELSE Location(hw, FieldB(Fetched(hw)))

\* after differs from before in PC and in the given location at most.
ChangedOnlyPCAnd(before, after, location) ==
    /\ \A i \in RegisterIndexes :
           <<"register", i>> # location => after.registers[i] = before.registers[i]
    /\ after.memory.len = before.memory.len
    /\ \A a \in DOMAIN before.memory.cells \cup DOMAIN after.memory.cells :
           <<"memory", a>> # location => MemRead(after.memory, a) = MemRead(before.memory, a)
    /\ after.call_stack = before.call_stack
    /\ after.overflow_flag = before.overflow_flag
    /\ after.underflow_flag = before.underflow_flag
    /\ after.error_flag = before.error_flag
    /\ after.sys_callback = before.sys_callback

\* C33: a successful NOP, SET, COPY, ADD, SUBTRACT or SYSCALL advances PC by
\* exactly 1; NOP, JUMP and the skips change nothing but PC; COPY, ADD,
\* SUBTRACT and SET change nothing but the destination location and PC; only
\* SUBROUTINE and RETURN change the call stack; and a clock that calls no
\* handler leaves PC as it is, one that calls a handler leaves the PC the
\* handler set.
C33_FrameOfSuccess ==
    /\ [][(ClockStep /\ last'.result = "ok") =>
            LET f == last'.function
            IN /\ f \in {"nop", "set", "copy", "add", "subtract", "syscall"} =>
                     hardware'.program_counter = hardware.program_counter + 1
               /\ f \in {"nop", "jump", "skip_if_zero", "skip_if_equal", "skip_if_greater"} =>
                     hardware' = [hardware EXCEPT
                                     !.program_counter = hardware'.program_counter]
               /\ f \in {"copy", "add", "subtract", "set"} =>
                     ChangedOnlyPCAnd(hardware, hardware', DestinationOf(hardware))
               /\ f \notin {"subroutine", "return_subroutine"} =>
                     hardware'.call_stack = hardware.call_stack]_vars
    /\ [][ClockStep =>
            IF last'.function = "none"
            THEN hardware'.program_counter = hardware.program_counter
            ELSE \E o \in Execute(last'.function, hardware, Fetched(hardware)) :
                     o.hw.program_counter = hardware'.program_counter]_vars

\* A SUBTRACT into the memory cell r4 points to has succeeded: the cell
\* holds the difference and PC is one more.
C33_Witness ==
    /\ last = Call("clock", "ok", "subtract", 0)
    /\ MemRead(hardware.memory, hardware.program_counter - 1) = SUBTRACT(R(1), M(4))
    /\ hardware.registers[1] = 40000
    /\ MemRead(hardware.memory, 9) = 39999
    /\ hardware.program_counter = MemSize

\* A SYSCALL has succeeded with a callback that wrote a register.
C33_WitnessSyscall ==
    /\ last = Call("clock", "ok", "syscall", 0)
    /\ hardware.registers[3] = 12
    /\ hardware.program_counter = MemSize

\* A RETURN has popped the call stack of the nested calls.
C33_WitnessReturn ==
    /\ last = Call("clock", "ok", "return_subroutine", 0)
    /\ Len(hardware.call_stack) = 1

\* A skip has skipped and a jump has jumped.
C33_WitnessSkip ==
    /\ last = Call("clock", "ok", "skip_if_zero", 0)
    /\ hardware.program_counter = MemSize + 1

C33_WitnessJump ==
    /\ last = Call("clock", "ok", "jump", 0)
    /\ MemRead(hardware.memory, MemSize - 1) = JUMP(RPM(6))
    /\ hardware.program_counter = JUMP(RPM(6))


\* ------------------------------------------------------------------------
\* C34: what a failed clock changes
\* ------------------------------------------------------------------------

\* after differs from before in the error, overflow and underflow flags at most.
ChangedOnlyFlags(before, after) ==
    after = [before EXCEPT !.error_flag = after.error_flag,
                           !.overflow_flag = after.overflow_flag,
                           !.underflow_flag = after.underflow_flag]

\* C34: a clock that returns an error leaves PC, the registers, the memory
\* and the call stack as they were before the call, whatever the cause of
\* the failure.
C34_FailedClockFrame ==
    [][(ClockStep /\ last'.result = "err") => ChangedOnlyFlags(hardware, hardware')]_vars

\* The failures that do leave the hardware as it was: every failed clock
\* but that of a SUBROUTINE whose target does not resolve and that of a
\* SYSCALL whose callback reports an error.
C34_FailedElsewhere ==
    [][(ClockStep /\ last'.result = "err"
          /\ ~(last'.function = "subroutine" /\ Len(hardware.call_stack) < CallStackSize)
          /\ ~(last'.function = "syscall" /\ hardware.sys_callback = "Live")) =>
       ChangedOnlyFlags(hardware, hardware')]_vars

\* A SUBROUTINE whose target is a memory cell beyond the memory has failed
\* and its return address is on the call stack.
C34_WitnessPushed ==
    /\ last = Call("clock", "err", "subroutine", 0)
    /\ hardware.call_stack = <<MemSize>>
    /\ hardware.program_counter = MemSize - 1
    /\ ~hardware.overflow_flag

\* A SYSCALL whose callback set the error flag has failed with the register
\* the callback wrote and with PC advanced.
C34_WitnessSyscall ==
    /\ last = Call("clock", "err", "syscall", 0)
    /\ hardware.registers[3] = 12
    /\ hardware.program_counter = MemSize


\* ------------------------------------------------------------------------
\* C35: SYSCALL under the lock of the arena
\* ------------------------------------------------------------------------

\* The for loop of start is at a machine whose next clock fetches SYSCALL.
ArenaAtSyscall ==
    /\ arena.status = "running"
    /\ arena.index < Len(arena.machines)
    /\ FetchesSyscall(MachineAtIndex.emulator)

\* C35: in the arena the clock of a machine whose instruction is SYSCALL
\* returns, the loop going on to the next machine, and the thread of start
\* never waits for a lock it holds.
C35_SyscallUnderLockReturns ==
    /\ [][ArenaAtSyscall => ClockReturnsStep]_vars
    /\ [](arena.status # "deadlocked")

\* The thread of start waits for the lock of the machine it is clocking,
\* the machines behind it still in the list.
C35_WitnessDeadlocked ==
    /\ arena.status = "deadlocked"
    /\ NamesOf(arena.machines) = <<1, 2>>
    /\ arena.index = 1
    /\ arena.clocked = <<1>>


\* ------------------------------------------------------------------------
\* C36: the main loop ends
\* ------------------------------------------------------------------------

\* No machine of the arena holds the word of SYSCALL: the bots have none and
\* no bot of the arena writes its memory.
NoSyscallInArena ==
    \A i \in 1..Len(arena.machines) :
        \A a \in DOMAIN arena.machines[i].emulator.memory.cells :
            MemRead(arena.machines[i].emulator.memory, a) # SYSCALL

\* C36: with bots without SYSCALL and an initial credit c of at least 1, the
\* main loop of start ends, and it ends after at most c ticks.
C36_LoopEnds ==
    /\ [](arena.initial_credit >= 1 =>
            /\ arena.ticks <= arena.initial_credit
            /\ arena.ticks = arena.initial_credit => arena.status = "finished")
    /\ (NoSyscallInArena /\ arena.initial_credit >= 1) => <>(arena.status = "finished")

\* Three machines that execute SET, SET and ADD on a credit of 3 have all
\* run out of credit in the third tick, and the loop has ended with it.
C36_Witness ==
    /\ arena.status = "finished"
    /\ arena.initial_credit = 3
    /\ arena.ticks = 3
    /\ arena.failed = {1, 2, 3}
    /\ NoSyscallInArena

\* The loop ended before the credit did.
C36_WitnessEarly ==
    /\ arena.status = "finished"
    /\ arena.initial_credit = 3
    /\ arena.ticks = 1
    /\ arena.winner = <<2>>


\* ------------------------------------------------------------------------
\* C37: the range of the credit
\* ------------------------------------------------------------------------

\* A step in which start clocks a machine, whether the clock returns or not.
ArenaClocksStep ==
    arena.status = "running" /\ arena.index < Len(arena.machines) /\ arena' # arena

CreditInRange ==
    \A i \in 1..Len(arena.machines) : arena.machines[i].credit <= arena.initial_credit

\* C37: for every initial credit, 0 included, the credit of a machine stays
\* within 0..initial_credit, and a machine is clocked only while it has
\* credit left, so that it is never clocked more often than its initial
\* credit.
C37_CreditNeverUnderflows ==
    /\ []CreditInRange
    /\ [][ArenaClocksStep => MachineAtIndex.credit >= 1]_vars

\* The same for an initial credit of at least 1.
C37_PositiveCreditInRange ==
    /\ [](arena.initial_credit >= 1 => CreditInRange)
    /\ [][(ArenaClocksStep /\ arena.initial_credit >= 1) => MachineAtIndex.credit >= 1]_vars

\* A machine started with a credit of 0 has been clocked and its credit has
\* wrapped around.
C37_WitnessWrapped ==
    /\ arena.initial_credit = 0
    /\ arena.status = "running"
    /\ arena.index = 1
    /\ arena.machines[1].credit = MaxWord
    /\ arena.machines[1].emulator.program_counter = 1

\* The decrement of a credit of 0 has panicked in the first clock of a
\* machine whose instruction is SET.
C37_WitnessPanicked ==
    /\ arena.initial_credit = 0
    /\ arena.status = "panicked"
    /\ arena.index = 0
    /\ Fetched(arena.machines[1].emulator) = SET(1, 120)


\* ------------------------------------------------------------------------
\* C38: the operand fields of the assembler and of the emulator
\* ------------------------------------------------------------------------

\* Hardware values with r[n] = 2 * n + 1 and PC = 0 or 2, every address of
\* which is inside the memory, and with r[n] = 65530 + n and PC = 2, where
\* r[n] + PC is beyond the memory or beyond a word.
FieldHardwares ==
    { [NewHardware(2 * MemSize) EXCEPT !.registers = [n \in RegisterIndexes |-> 2 * n + 1],
                                       !.program_counter = pc] : pc \in {0, 2} }
    \cup { [NewHardware(2 * MemSize) EXCEPT !.registers = [n \in RegisterIndexes |-> 65530 + n],
                                            !.program_counter = 2] }

\* What the operand written prefix n names on hardware hw.
NamedBy(operand, hw) ==
    LET n == operand[2]
        sum == hw.registers[n] + hw.program_counter
    IN CASE operand[1] = "r" -> AddressOk("Register", n)
         [] operand[1] = "m" -> IF hw.registers[n] < hw.memory.len
                                THEN AddressOk("Memory", hw.registers[n]) ELSE AddressErr
         [] operand[1] = "rp" -> AddressOk("RegisterPlusPC", Min(sum, MaxWord))
         [] operand[1] = "rpm" -> IF sum < hw.memory.len
                                  THEN AddressOk("Memory", sum) ELSE AddressErr

\* The field of bits the assembler is to emit for the operand.
FieldFor(operand) ==
    operand[2] + 16 * (CASE operand[1] = "r" -> 0 [] operand[1] = "m" -> 1
                         [] operand[1] = "rp" -> 2 [] operand[1] = "rpm" -> 3)

\* The address the emulator takes for the k-th operand of a word with the
\* given number of operands.
EmulatorField(word, count, k) ==
    IF count = 1 THEN extract_one_operand_address(word)
    ELSE IF k = 1 THEN extract_two_operand_address(word).first
    ELSE extract_two_operand_address(word).second

\* C38: the field the assembler emits for prefix n has the mode of the prefix
\* in bits 5..4 and n in bits 3..0, the emulator resolves it as Register n,
\* the memory cell r[n], the value r[n] + PC and the memory cell r[n] + PC,
\* and the first operand written is in bits 11..6, where the emulator takes
\* its first operand from.
C38_FieldsAgree ==
    assembler.translated =>
        LET word == assembler.result.word
            count == Len(assembler.operands)
        IN /\ assembler.result.ok /\ assembler.result.some
           /\ count = 2 => (word \div 64) % 64 = FieldFor(assembler.operands[1])
           /\ word % 64 = FieldFor(assembler.operands[count])
           /\ \A k \in 1..count :
                 /\ EmulatorField(word, count, k) = FieldFor(assembler.operands[k])
                 /\ \A hw \in FieldHardwares :
                        get_true_address(hw, EmulatorField(word, count, k)) =
                            NamedBy(assembler.operands[k], hw)

\* subtract rpm6 m5 is translated: the first operand is in bits 11..6.
C38_Witness ==
    /\ assembler.translated
    /\ assembler.line = "subtract rpm6 m5"
    /\ assembler.result = TranslateOk(12288 + 64 * 54 + 21)

\* jump rp7 is translated.
C38_WitnessOne ==
    /\ assembler.translated
    /\ assembler.line = "jump rp7"
    /\ assembler.result = TranslateOk(64 + 39)


\* ------------------------------------------------------------------------
\* C39: the result of a small task
\* ------------------------------------------------------------------------

\* The task in the memory, from the three numbers behind its code.
TaskLoaded ==
    make_small_task(MemRead(hardware.memory, 10), MemRead(hardware.memory, 11),
                    MemRead(hardware.memory, 12))

\* The clocks have reached the RETURN of the task.
AtReturn ==
    /\ hardware.program_counter = 9
    /\ last = Call("clock", "ok", "subtract", 0)

\* C39: when the RETURN of a small task run from offset 0 on a fresh CPU is
\* reached, register 2 holds the expected result of the task,
\* (3 * d1 + d2) - 2 * d3.
C39_TaskResult ==
    AtReturn => hardware.registers[2] = TaskLoaded.expected_result

\* What the registers do hold at the RETURN: register 2 the sum 3 * d1 + d2,
\* register 3 the number d3 again.
C39_RegistersAtReturn ==
    AtReturn =>
        /\ hardware.registers[1] = MemRead(hardware.memory, 10)
        /\ hardware.registers[2] = 3 * MemRead(hardware.memory, 10) + MemRead(hardware.memory, 11)
        /\ hardware.registers[3] = MemRead(hardware.memory, 12)
        /\ hardware.registers[2] = TaskLoaded.expected_result + 2 * MemRead(hardware.memory, 12)

\* The task of 1, 1000 and 499 at its RETURN: 5 expected, 1003 in register 2.
C39_WitnessAtReturn ==
    /\ AtReturn
    /\ TaskLoaded.expected_result = 5
    /\ hardware.registers[2] = 1003
    /\ hardware.registers[3] = 499

====
